---- MODULE Spec2Model ----
(***************************************************************************)
(* talktime-tally: the speaking-session state machine.                     *)
(*                                                                         *)
(* The store (tables participants and speaking_sessions of the migration)  *)
(* is shared by browser clients.  Every store query or mutation is one     *)
(* atomic step at the store; a handler that awaits several of them is a    *)
(* sequence of steps, and the steps of different clients interleave.       *)
(* supabase-js returns { data, error } and does not throw: a failed call   *)
(* changes nothing at the store, and the handler goes on unless it tests   *)
(* the error itself.                                                       *)
(***************************************************************************)
EXTENDS Integers, Sequences, FiniteSets, TLC

\* ------------------------------------------------------------------ bounds
MaxRows == 2        \* rows the speaking_sessions table may hold
MaxTick == 1        \* largest value a ParticipantTimer counter reaches
MaxCount == 1       \* largest speaking_sessions value a stop may write
MaxInflight == 2    \* fetchParticipants responses in flight per client
MaxClock == 3
MaxLen == 2
MaxNames == 2
MaxSeconds == 6059
MaxPosts == 2       \* largest value of the clock

\* ------------------------------------------------------------- the universe
Clients == {"c1", "c2"}
Meetings == {"m1", "m2", "m3"}
PIds == {"alice", "bob", "carol", "dave"}

\* the participants that exist at the start; dave is created later
InitialPIds == {"alice", "bob", "carol"}

NULL == -1

\* ids the meetings table may hold: those of Meetings and one more
MeetingIds == Meetings \cup {"m4"}

\* text typed into a form field: a sequence of characters, at most MaxLen
Chars == {" ", "a"}
Texts == UNION {[1..n -> Chars] : n \in 0..MaxLen}

\* Math.floor(ms / 1000): clock units in a second
UnitsPerSecond == 2

\* useState<Record<...>>({}): no local counter
NoCounters == [p \in {} |-> 0]
Stamp == 1          \* a timestamp written by new Date().toISOString()

\* participants.meeting_id of the rows created for the meetings
MeetingOf(p) == IF p = "carol" THEN "m2" ELSE "m1"

\* columns of public.speaking_sessions
SessionColumns == {"id", "participant_id", "meeting_id", "started_at", "ended_at", "duration"}

VARIABLES
  participants,        \* store: table participants, keyed by id
  speaking_sessions,   \* store: table speaking_sessions, id = position
  meetingId,           \* client: the meeting its ActiveMeetingView shows
  viewParticipants,    \* client: ActiveMeetingView state `participants`
  fetchPending,        \* client: a fetchParticipants request not yet served
  inflight,            \* client: fetchParticipants responses not yet delivered
  currentSessionTime,  \* client: ParticipantTimer state, per participant
  activeSessionId,     \* client: ParticipantTimer state, per participant
  pc,                  \* client: the handler in flight and its position
  localCounters,       \* client: ActiveMeetingView state `localCounters`
  clock,               \* Date.now(), in units of 1000 / UnitsPerSecond ms
  viewOrder,           \* client: the order of the list the leaderboard view fetched
  toast,               \* client: variant of the toast() raised since its last click
  page,                \* client: MeetingDashboard is mounted
  activeMeeting,       \* client: MeetingDashboard state `activeMeeting`, "none" for null
  activeTab,           \* client: ActiveMeetingView state `activeTab`
  hasNew,              \* client: ActiveMeetingView state `hasNewSubjects`, `hasNewQuestions`
  channels,            \* client: number of subscribed channels per component and table
  meetings,            \* store: table meetings, keyed by id
  creating,            \* client: the handleCreate in flight and its position
  title,               \* client: CreateMeetingDialog state `title`
  formParticipants,    \* client: CreateMeetingDialog state `participants`
  meetingsPending,     \* client: a fetchMeetings request not yet answered
  questions,           \* store: table questions, in order of insertion
  subjects,            \* store: table subjects, in order of insertion
  panel,               \* client: state of QuestionsPanel and SubjectsPanel
  panelPending,        \* client: fetchQuestions / fetchSubjects not yet answered
  hist,                \* history: the client's last completed startSpeaking
  label                \* client: the time label last rendered, by each copy of formatTime

vars == <<participants, speaking_sessions, meetingId, viewParticipants,
          fetchPending, inflight, currentSessionTime, activeSessionId, pc,
          localCounters, clock, viewOrder, toast, page, activeMeeting,
          activeTab, hasNew, channels, meetings, creating, title,
          formParticipants, meetingsPending, questions, subjects, panel,
          panelPending, hist, label>>

storeVars == <<participants, speaking_sessions>>
timerVars == <<currentSessionTime, activeSessionId>>
boardVars == <<localCounters, clock, viewOrder>>
feedVars == <<page, activeMeeting, activeTab, hasNew, channels>>
dialogVars == <<creating, title, formParticipants>>
formVars == <<meetings, meetingsPending, dialogVars>>
panelVars == <<questions, subjects, panel, panelPending>>

\* ------------------------------------------------------- store operations
\* a participants table whose is_currently_speaking defaults to true
NewParticipant_speaking(m) ==
  [meeting_id |-> m, is_currently_speaking |-> TRUE,
   total_speaking_time |-> 0, speaking_sessions |-> 0]

\* CREATE TABLE public.participants: a new row
NewParticipant(m) ==
  [meeting_id |-> m, is_currently_speaking |-> FALSE,
   total_speaking_time |-> 0, speaking_sessions |-> 0]

\* a clear-all that clears nothing
UpdateSpeakingByMeeting_none(tbl, m, v) == tbl

\* .from("participants").update({is_currently_speaking: v}).eq("meeting_id", m)
UpdateSpeakingByMeeting(tbl, m, v) ==
  [p \in DOMAIN tbl |->
     IF tbl[p].meeting_id = m THEN [tbl[p] EXCEPT !.is_currently_speaking = v]
     ELSE tbl[p]]

\* a flag update that also counts a session
UpdateSpeakingById_count(tbl, id, v) ==
  [p \in DOMAIN tbl |->
     IF p = id THEN [tbl[p] EXCEPT !.is_currently_speaking = v,
                                   !.speaking_sessions = @ + 1]
     ELSE tbl[p]]

\* a flag update without its .eq("id", id) filter
UpdateSpeakingById_all(tbl, id, v) ==
  [p \in DOMAIN tbl |-> [tbl[p] EXCEPT !.is_currently_speaking = v]]

\* .from("participants").update({is_currently_speaking: v}).eq("id", id)
UpdateSpeakingById(tbl, id, v) ==
  [p \in DOMAIN tbl |->
     IF p = id THEN [tbl[p] EXCEPT !.is_currently_speaking = v] ELSE tbl[p]]

\* an aggregate update that writes the flag only
UpdateStatsById_flag(tbl, id, t, n) ==
  [p \in DOMAIN tbl |->
     IF p = id THEN [tbl[p] EXCEPT !.is_currently_speaking = FALSE] ELSE tbl[p]]

\* .from("participants").update({is_currently_speaking: false,
\*    total_speaking_time: t, speaking_sessions: n}).eq("id", id)
UpdateStatsById(tbl, id, t, n) ==
  [p \in DOMAIN tbl |->
     IF p = id
     THEN [tbl[p] EXCEPT !.is_currently_speaking = FALSE,
                         !.total_speaking_time = t, !.speaking_sessions = n]
     ELSE tbl[p]]

\* a select of open sessions that misses the oldest one
SelectOpenIds_skip(ss, m) ==
  {i \in 2..Len(ss) : ss[i].meeting_id = m /\ ss[i].ended_at = NULL}

\* .from("speaking_sessions").select("id").eq("meeting_id", m).is("ended_at", null)
SelectOpenIds(ss, m) ==
  {i \in 1..Len(ss) : ss[i].meeting_id = m /\ ss[i].ended_at = NULL}

\* a cleanup that also writes a duration
UpdateEndedIn_duration(ss, ids) ==
  [i \in 1..Len(ss) |->
     IF i \in ids THEN [ss[i] EXCEPT !.ended_at = Stamp, !.duration = 0] ELSE ss[i]]

\* .from("speaking_sessions").update({ended_at: now}).in("id", ids)
UpdateEndedIn(ss, ids) ==
  [i \in 1..Len(ss) |-> IF i \in ids THEN [ss[i] EXCEPT !.ended_at = Stamp] ELSE ss[i]]

\* a close that stamps ended_at and leaves the duration
UpdateEndedDuration_stamp(ss, id, d) ==
  [i \in 1..Len(ss) |->
     IF i = id THEN [ss[i] EXCEPT !.ended_at = Stamp] ELSE ss[i]]

\* .from("speaking_sessions").update({ended_at: now, duration: d}).eq("id", id)
UpdateEndedDuration(ss, id, d) ==
  [i \in 1..Len(ss) |->
     IF i = id THEN [ss[i] EXCEPT !.ended_at = Stamp, !.duration = d] ELSE ss[i]]

\* .from("speaking_sessions").insert({participant_id, meeting_id}): started_at
\* defaults to now(), ended_at and duration to null
InsertSession(ss, p, m) ==
  Append(ss, [participant_id |-> p, meeting_id |-> m, ended_at |-> NULL, duration |-> NULL])

\* the store rejects a payload or filter that names a column the table lacks
ColumnsExist(cols) == cols \subseteq SessionColumns

\* ------------------------------------------------- change-feed subscriptions
Components == {"MeetingDashboard", "ActiveMeetingView", "QuestionsPanel"}
Tables == {"meetings", "participants", "speaking_sessions", "subjects", "questions"}
Tabs == {"leaderboard", "subjects", "questions"}

\* the tables of the four channels of the ActiveMeetingView effect
ViewTables == {"participants", "speaking_sessions", "subjects", "questions"}

NoChannels == [k \in Components \X Tables |-> 0]
NoNews == [t \in {"subjects", "questions"} |-> FALSE]

\* supabase.channel(..).on('postgres_changes', {table: t}, ..).subscribe(),
\* by component o for each table of ts
subscribe(ch, o, ts) ==
  [k \in DOMAIN ch |-> IF k[1] = o /\ k[2] \in ts THEN ch[k] + 1 ELSE ch[k]]

\* a cleanup that removes no channel
removeChannel_keep(ch, o, ts) == ch

\* supabase.removeChannel(channel), by component o for each table of ts
removeChannel(ch, o, ts) ==
  [k \in DOMAIN ch |->
     IF k[1] = o /\ k[2] \in ts /\ ch[k] > 0 THEN ch[k] - 1 ELSE ch[k]]

\* useEffect of component o: the cleanup of the previous run when the
\* component unmounts or a dependency changed, then the effect when the
\* component mounts or a dependency changed
Effect(ch, o, ts, was, is, rerun) ==
  LET cleaned == IF was /\ (~is \/ rerun) THEN removeChannel(ch, o, ts) ELSE ch
  IN  IF is /\ (~was \/ rerun) THEN subscribe(cleaned, o, ts) ELSE cleaned

\* the effects of one commit that takes client c's tree from (onPage, m, tab)
\* to (onPage2, m2, tab2): MeetingDashboard renders ActiveMeetingView when
\* activeMeeting is set, and the Tabs render QuestionsPanel in the questions tab
Commit(ch, onPage, m, tab, onPage2, m2, tab2) ==
  LET view  == onPage /\ m # "none"
      view2 == onPage2 /\ m2 # "none"
      d == Effect(ch, "MeetingDashboard", {"meetings"}, onPage, onPage2, FALSE)
      v == Effect(d, "ActiveMeetingView", ViewTables, view, view2,
                  m # m2 \/ tab # tab2)
  IN  Effect(v, "QuestionsPanel", {"questions"},
             view /\ tab = "questions", view2 /\ tab2 = "questions", m # m2)

\* ------------------------------------------------------- meetings and forms
\* CREATE TABLE public.meetings: a new row, the n-th created
NewMeeting(n) == [is_active |-> TRUE, ended_at |-> NULL, created_at |-> n]

\* a deactivation that deactivates nothing
EndActive_none(tbl) == tbl

\* .from("meetings").update({is_active: false, ended_at}).eq("is_active", true)
EndActive(tbl) ==
  [m \in DOMAIN tbl |->
     IF tbl[m].is_active THEN [tbl[m] EXCEPT !.is_active = FALSE, !.ended_at = Stamp]
     ELSE tbl[m]]

\* an end that stamps ended_at and leaves the meeting active
EndMeeting_stamp(tbl, id) ==
  [m \in DOMAIN tbl |-> IF m = id THEN [tbl[m] EXCEPT !.ended_at = Stamp] ELSE tbl[m]]

\* .from("meetings").update({is_active: false, ended_at}).eq("id", id)
EndMeeting(tbl, id) ==
  [m \in DOMAIN tbl |->
     IF m = id THEN [tbl[m] EXCEPT !.is_active = FALSE, !.ended_at = Stamp]
     ELSE tbl[m]]

\* .from("meetings").insert({title, created_by}): a row with a fresh id
InsertMeeting(tbl, id) ==
  [m \in DOMAIN tbl \cup {id} |->
     IF m = id THEN NewMeeting(Cardinality(DOMAIN tbl) + 1) ELSE tbl[m]]

\* a trim that removes nothing
trim_keep(s) == s

\* String.prototype.trim: without the leading and the trailing blanks
RECURSIVE trim(_)
trim(s) ==
  IF s = <<>> THEN s
  ELSE IF Head(s) = " " THEN trim(Tail(s))
  ELSE IF s[Len(s)] = " " THEN trim(SubSeq(s, 1, Len(s) - 1))
  ELSE s

\* a participants row with its name column
Named(row, name) ==
  [f \in DOMAIN row \cup {"name"} |-> IF f = "name" THEN name ELSE row[f]]

\* a filter that keeps every entry
validParticipants_all(names) == names

\* participants.filter(p => p.trim() !== "")
validParticipants(names) == SelectSeq(names, LAMBDA p : trim(p) # <<>>)

\* the id the store gives to the i-th participant row inserted for meeting m
RowId(m, i) ==
  IF m = "m3" THEN (IF i = 1 THEN "m3-1" ELSE IF i = 2 THEN "m3-2" ELSE "m3-3")
  ELSE IF m = "m4" THEN (IF i = 1 THEN "m4-1" ELSE IF i = 2 THEN "m4-2" ELSE "m4-3")
  ELSE (IF i = 1 THEN "mx-1" ELSE IF i = 2 THEN "mx-2" ELSE "mx-3")

NotCreating == [step |-> "idle", m |-> "none", names |-> <<>>]

\* a nullable text column: SQL null, or a text
Null == [null |-> TRUE, text |-> <<>>]
Text(t) == [null |-> FALSE, text |-> t]

\* the state QuestionsPanel and SubjectsPanel are mounted with
PanelInit ==
  [newQuestion |-> <<>>, askerName |-> <<>>, isAnonymous |-> FALSE, questions |-> <<>>,
   newTitle |-> <<>>, newDescription |-> <<>>, subjects |-> <<>>]

QuestionsFields == {"newQuestion", "askerName", "isAnonymous", "questions"}
NoPending == [questions |-> FALSE, subjects |-> FALSE]

\* the panels' state after a commit: a panel that is not rendered loses its
\* state, and is mounted again with its initial state
PanelAfter(st, onPage2, m2, tab2) ==
  [f \in DOMAIN st |->
     IF f \in QuestionsFields
     THEN (IF onPage2 /\ m2 # "none" /\ tab2 = "questions" THEN st[f] ELSE PanelInit[f])
     ELSE (IF onPage2 /\ m2 # "none" /\ tab2 = "subjects" THEN st[f] ELSE PanelInit[f])]

\* the panels' effects [meetingId]: fetchQuestions / fetchSubjects on mount
\* and when the meeting changes; nothing is set on an unmounted panel
PendingAfter(pend, onPage, m, tab, onPage2, m2, tab2) ==
  [t \in DOMAIN pend |->
     /\ onPage2 /\ m2 # "none" /\ tab2 = t
     /\ \/ ~(onPage /\ m # "none" /\ tab = t)
        \/ m # m2
        \/ pend[t]]

\* ------------------------------------------------------------ client state
\* history of a client: its last handler was a startSpeaking(p) that ran with
\* no failed call and nothing interleaved, it opened session sid from the
\* participants rows pre, n ticks of p's timer followed, and no call of any
\* other handler reached the store since
NoHist == [kind |-> "none", p |-> "none", sid |-> NULL, pre |-> <<>>, n |-> 0]

\* the handler in flight: op and step are its position; p, ids, sid, dur,
\* total, count, status are the values it holds (closure and awaited results);
\* ok, alone, pre, prev are history: no call of it failed, no call of another
\* client reached the store since it began, the participants rows when it
\* began, and the client's history when it began
Idle == [op |-> "idle", step |-> "idle", p |-> "none", ids |-> {}, sid |-> NULL,
         dur |-> 0, total |-> 0, count |-> 0, status |-> FALSE,
         ok |-> TRUE, alone |-> TRUE, pre |-> <<>>, prev |-> NoHist]

\* .from("participants").select("*").eq("meeting_id", m)
SelectParticipants(tbl, m) ==
  [p \in {q \in DOMAIN tbl : tbl[q].meeting_id = m} |-> tbl[p]]

\* a step of client c at the store: every other handler in flight has been
\* interleaved with; every client subscribed to meeting m is notified and
\* re-fetches (postgres_changes -> fetchParticipants)
Step(c, new) ==
  [d \in Clients |->
     IF d = c THEN new
     ELSE IF pc[d].op # "idle" THEN [pc[d] EXCEPT !.alone = FALSE] ELSE pc[d]]

\* the histories after a call of client c reached the store
Others(c) == [d \in Clients |-> IF d = c THEN hist[d] ELSE NoHist]

Notify(m, changed) ==
  [d \in Clients |-> IF changed /\ meetingId[d] = m THEN TRUE ELSE fetchPending[d]]

\* ------------------------------------------------------------- formatTime
Digits == <<"0", "1", "2", "3", "4", "5", "6", "7", "8", "9">>

\* Number.prototype.toString of a non-negative integer: its decimal digits
RECURSIVE toString(_)
toString(n) ==
  IF n < 10 THEN <<Digits[n + 1]>>
  ELSE toString(n \div 10) \o <<Digits[(n % 10) + 1]>>

\* a padStart that pads nothing
padStart_none(str, targetLength, padString) == str

\* String.prototype.padStart with a pad string of one character
RECURSIVE padStart(_, _, _)
padStart(str, targetLength, padString) ==
  IF Len(str) >= targetLength THEN str
  ELSE padStart(<<padString>> \o str, targetLength, padString)

\* formatTime of ParticipantTimer
formatTime(seconds) ==
  LET mins == seconds \div 60
      secs == seconds % 60
  IN toString(mins) \o <<":">> \o padStart(toString(secs), 2, "0")

\* formatTime of ActiveMeetingView with the leaderboard
formatTime_board(seconds) ==
  LET mins == seconds \div 60
      secs == seconds % 60
  IN toString(mins) \o <<":">> \o padStart(toString(secs), 2, "0")

\* formatTime of ActiveMeetingView with the timer cards
formatTime_cards(seconds) ==
  LET mins == seconds \div 60
      secs == seconds % 60
  IN toString(mins) \o <<":">> \o padStart(toString(secs), 2, "0")

\* formatTime of ParticipantsNameList
formatTime_list(seconds) ==
  LET mins == seconds \div 60
      secs == seconds % 60
  IN toString(mins) \o <<":">> \o padStart(toString(secs), 2, "0")

\* no time label rendered yet
NoLabel == [seconds |-> 0, timer |-> <<>>, board |-> <<>>, cards |-> <<>>, list |-> <<>>]

\* Meeting m1 with alice and bob is newly created and every client has
\* mounted its view and loaded the participants.  Meeting m2 is an older
\* meeting whose participant carol was left marked speaking.
Init ==
  /\ participants = [p \in InitialPIds |->
                       [NewParticipant(MeetingOf(p)) EXCEPT
                          !.is_currently_speaking = (MeetingOf(p) = "m2")]]
  /\ speaking_sessions = <<>>
  /\ meetingId = [c \in Clients |-> "m1"]
  /\ viewParticipants = [c \in Clients |-> SelectParticipants(participants, meetingId[c])]
  /\ fetchPending = [c \in Clients |-> FALSE]
  /\ inflight = [c \in Clients |-> {}]
  /\ currentSessionTime = [c \in Clients |-> [p \in PIds |-> 0]]
  /\ activeSessionId = [c \in Clients |-> [p \in PIds |-> NULL]]
  /\ pc = [c \in Clients |-> Idle]
  /\ toast = [c \in Clients |-> "none"]
  /\ page = [c \in Clients |-> TRUE]
  /\ activeMeeting = meetingId
  /\ activeTab = [c \in Clients |-> "leaderboard"]
  /\ hasNew = [c \in Clients |-> NoNews]
  /\ channels = [c \in Clients |->
                   Commit(NoChannels, FALSE, "none", "leaderboard",
                          TRUE, meetingId[c], "leaderboard")]
  /\ meetings = [m \in {"m1", "m2"} |->
                  IF m = "m1" THEN NewMeeting(2)
                  ELSE [NewMeeting(1) EXCEPT !.is_active = FALSE, !.ended_at = Stamp]]
  /\ creating = [c \in Clients |-> NotCreating]
  /\ title = [c \in Clients |-> <<>>]
  /\ formParticipants = [c \in Clients |-> << <<>> >>]
  /\ meetingsPending = [c \in Clients |-> FALSE]
  /\ questions = <<>>
  /\ subjects = <<>>
  /\ panel = [c \in Clients |-> PanelInit]
  /\ panelPending = [c \in Clients |-> NoPending]
  /\ localCounters = [c \in Clients |-> NoCounters]
  /\ clock = 0
  /\ viewOrder = [c \in Clients |-> <<"alice", "bob">>]
  /\ hist = [c \in Clients |-> NoHist]
  /\ label = NoLabel

\* ------------------------------------------- ParticipantTimer.startSpeaking
\* handlers that will still insert a row (keeps the table within MaxRows)
InsertsAhead ==
  Cardinality({d \in Clients : pc[d].op = "start" /\ pc[d].step \in {"select", "close", "insert"}})

\* click on "Start Speaking" and the first awaited call: clear every flag of
\* the meeting; the result of the call is not looked at
startSpeaking_clear(c, p, ok) ==
  /\ pc[c].op = "idle"
  /\ p \in DOMAIN viewParticipants[c]
  /\ ~viewParticipants[c][p].is_currently_speaking
  /\ Len(speaking_sessions) + InsertsAhead < MaxRows
  /\ participants' = IF ok THEN UpdateSpeakingByMeeting(participants, meetingId[c], FALSE)
                     ELSE participants
  /\ pc' = Step(c, [Idle EXCEPT !.op = "start", !.step = "select", !.p = p, !.ok = ok,
                                !.pre = participants, !.prev = hist[c]])
  /\ hist' = [d \in Clients |-> NoHist]
  /\ fetchPending' = Notify(meetingId[c], participants' # participants)
  /\ toast' = [toast EXCEPT ![c] = "none"]
  /\ UNCHANGED boardVars
  /\ UNCHANGED <<feedVars, formVars, panelVars, label>>
  /\ UNCHANGED <<speaking_sessions, meetingId, viewParticipants, inflight, timerVars>>

\* select the ids of the meeting's open sessions; no data on failure
startSpeaking_select(c, ok) ==
  /\ pc[c].op = "start" /\ pc[c].step = "select"
  /\ LET ids == IF ok THEN SelectOpenIds(speaking_sessions, meetingId[c]) ELSE {}
     IN pc' = Step(c, [pc[c] EXCEPT !.ids = ids, !.ok = @ /\ ok,
                                    !.step = IF ids # {} THEN "close" ELSE "insert"])
  /\ hist' = Others(c)
  /\ UNCHANGED toast
  /\ UNCHANGED boardVars
  /\ UNCHANGED <<feedVars, formVars, panelVars, label>>
  /\ UNCHANGED <<storeVars, meetingId, viewParticipants, fetchPending, inflight, timerVars>>

\* stamp ended_at on the selected sessions; the result is not looked at
startSpeaking_close(c, ok) ==
  /\ pc[c].op = "start" /\ pc[c].step = "close"
  /\ speaking_sessions' = IF ok THEN UpdateEndedIn(speaking_sessions, pc[c].ids)
                          ELSE speaking_sessions
  /\ pc' = Step(c, [pc[c] EXCEPT !.ok = @ /\ ok, !.step = "insert"])
  /\ fetchPending' = Notify(meetingId[c], speaking_sessions' # speaking_sessions)
  /\ hist' = Others(c)
  /\ UNCHANGED toast
  /\ UNCHANGED boardVars
  /\ UNCHANGED <<feedVars, formVars, panelVars, label>>
  /\ UNCHANGED <<participants, meetingId, viewParticipants, inflight, timerVars>>

\* insert the new session (participant_id references a participants row);
\* sessionError is thrown and caught (toast)
startSpeaking_insert(c, ok) ==
  /\ pc[c].op = "start" /\ pc[c].step = "insert"
  /\ IF ok /\ pc[c].p \in DOMAIN participants
     THEN /\ speaking_sessions' = InsertSession(speaking_sessions, pc[c].p, meetingId[c])
          /\ pc' = Step(c, [pc[c] EXCEPT !.sid = Len(speaking_sessions) + 1, !.step = "flag"])
     ELSE /\ speaking_sessions' = speaking_sessions
          /\ pc' = Step(c, Idle)
  /\ fetchPending' = Notify(meetingId[c], speaking_sessions' # speaking_sessions)
  /\ hist' = Others(c)
  /\ toast' = [toast EXCEPT ![c] = IF pc'[c].op = "idle" THEN "destructive" ELSE @]
  /\ UNCHANGED boardVars
  /\ UNCHANGED <<feedVars, formVars, panelVars, label>>
  /\ UNCHANGED <<participants, meetingId, viewParticipants, inflight, timerVars>>

\* mark the participant speaking; the result is not looked at
startSpeaking_flag(c, ok) ==
  /\ pc[c].op = "start" /\ pc[c].step = "flag"
  /\ participants' = IF ok THEN UpdateSpeakingById(participants, pc[c].p, TRUE)
                     ELSE participants
  /\ pc' = Step(c, [pc[c] EXCEPT !.ok = @ /\ ok, !.step = "finish"])
  /\ fetchPending' = Notify(meetingId[c], participants' # participants)
  /\ hist' = Others(c)
  /\ UNCHANGED toast
  /\ UNCHANGED boardVars
  /\ UNCHANGED <<feedVars, formVars, panelVars, label>>
  /\ UNCHANGED <<speaking_sessions, meetingId, viewParticipants, inflight, timerVars>>

\* setActiveSessionId(newSession.id); setCurrentSessionTime(0); onUpdate()
startSpeaking_finish(c) ==
  /\ pc[c].op = "start" /\ pc[c].step = "finish"
  /\ activeSessionId' = [activeSessionId EXCEPT ![c][pc[c].p] = pc[c].sid]
  /\ currentSessionTime' = [currentSessionTime EXCEPT ![c][pc[c].p] = 0]
  /\ fetchPending' = [fetchPending EXCEPT ![c] = TRUE]
  /\ pc' = [pc EXCEPT ![c] = Idle]
  /\ hist' = [hist EXCEPT ![c] =
               IF pc[c].ok /\ pc[c].alone
               THEN [kind |-> "started", p |-> pc[c].p, sid |-> pc[c].sid,
                     pre |-> pc[c].pre, n |-> 0]
               ELSE NoHist]
  /\ UNCHANGED toast
  /\ UNCHANGED boardVars
  /\ UNCHANGED <<feedVars, formVars, panelVars, label>>
  /\ UNCHANGED <<storeVars, meetingId, viewParticipants, inflight>>

\* -------------------------------------------- ParticipantTimer.stopSpeaking
\* click on "Stop Speaking": the handler reads its render's state and props
stopSpeaking_click(c, p) ==
  /\ pc[c].op = "idle"
  /\ p \in DOMAIN viewParticipants[c]
  /\ viewParticipants[c][p].is_currently_speaking
  /\ viewParticipants[c][p].speaking_sessions < MaxCount
  /\ pc' = [pc EXCEPT ![c] =
              [Idle EXCEPT !.pre = participants, !.prev = hist[c], !.op = "stop", !.p = p,
                           !.sid = activeSessionId[c][p],
                           !.dur = currentSessionTime[c][p],
                           !.total = viewParticipants[c][p].total_speaking_time,
                           !.count = viewParticipants[c][p].speaking_sessions,
                           !.step = IF activeSessionId[c][p] # NULL THEN "close" ELSE "stats"]]
  /\ hist' = [hist EXCEPT ![c] = NoHist]
  /\ toast' = [toast EXCEPT ![c] = "none"]
  /\ UNCHANGED boardVars
  /\ UNCHANGED <<feedVars, formVars, panelVars, label>>
  /\ UNCHANGED <<storeVars, meetingId, viewParticipants, fetchPending, inflight, timerVars>>

\* if (activeSessionId): close that session with the ticked duration; the
\* result is not looked at
stopSpeaking_close(c, ok) ==
  /\ pc[c].op = "stop" /\ pc[c].step = "close"
  /\ speaking_sessions' = IF ok THEN UpdateEndedDuration(speaking_sessions, pc[c].sid, pc[c].dur)
                          ELSE speaking_sessions
  /\ pc' = Step(c, [pc[c] EXCEPT !.ok = @ /\ ok, !.step = "stats"])
  /\ fetchPending' = Notify(meetingId[c], speaking_sessions' # speaking_sessions)
  /\ hist' = Others(c)
  /\ UNCHANGED toast
  /\ UNCHANGED boardVars
  /\ UNCHANGED <<feedVars, formVars, panelVars, label>>
  /\ UNCHANGED <<participants, meetingId, viewParticipants, inflight, timerVars>>

\* write the aggregate computed from the props; the result is not looked at
stopSpeaking_stats(c, ok) ==
  /\ pc[c].op = "stop" /\ pc[c].step = "stats"
  /\ participants' = IF ok THEN UpdateStatsById(participants, pc[c].p,
                                                pc[c].total + pc[c].dur, pc[c].count + 1)
                     ELSE participants
  /\ pc' = Step(c, [pc[c] EXCEPT !.ok = @ /\ ok, !.step = "finish"])
  /\ fetchPending' = Notify(meetingId[c], participants' # participants)
  /\ hist' = Others(c)
  /\ UNCHANGED toast
  /\ UNCHANGED boardVars
  /\ UNCHANGED <<feedVars, formVars, panelVars, label>>
  /\ UNCHANGED <<speaking_sessions, meetingId, viewParticipants, inflight, timerVars>>

\* setActiveSessionId(null); setCurrentSessionTime(0); onUpdate()
stopSpeaking_finish(c) ==
  /\ pc[c].op = "stop" /\ pc[c].step = "finish"
  /\ activeSessionId' = [activeSessionId EXCEPT ![c][pc[c].p] = NULL]
  /\ currentSessionTime' = [currentSessionTime EXCEPT ![c][pc[c].p] = 0]
  /\ fetchPending' = [fetchPending EXCEPT ![c] = TRUE]
  /\ pc' = [pc EXCEPT ![c] = Idle]
  /\ UNCHANGED toast
  /\ UNCHANGED boardVars
  /\ UNCHANGED <<feedVars, formVars, panelVars, label>>
  /\ UNCHANGED <<storeVars, meetingId, viewParticipants, inflight, hist>>

\* the interval of the tick effect: it runs while the prop says speaking
tick(c, p) ==
  /\ p \in DOMAIN viewParticipants[c]
  /\ viewParticipants[c][p].is_currently_speaking
  /\ currentSessionTime[c][p] < MaxTick
  /\ currentSessionTime' = [currentSessionTime EXCEPT ![c][p] = @ + 1]
  /\ hist' = [hist EXCEPT ![c] =
               IF @.kind = "started" /\ @.p = p THEN [@ EXCEPT !.n = @ + 1] ELSE @]
  /\ UNCHANGED toast
  /\ UNCHANGED boardVars
  /\ UNCHANGED <<feedVars, formVars, panelVars, label>>
  /\ UNCHANGED <<storeVars, meetingId, viewParticipants, fetchPending, inflight,
                 activeSessionId, pc>>

\* ------------------------------------- ActiveMeetingView.fetchParticipants
\* the store serves a pending request; an error response sets nothing
fetchParticipants_select(c, ok) ==
  /\ fetchPending[c]
  /\ Cardinality(inflight[c]) < MaxInflight
  /\ fetchPending' = [fetchPending EXCEPT ![c] = FALSE]
  /\ inflight' = IF ok THEN [inflight EXCEPT ![c] =
                               @ \cup {SelectParticipants(participants, meetingId[c])}]
                 ELSE inflight
  /\ toast' = [toast EXCEPT ![c] = IF ~ok THEN "destructive" ELSE @]
  /\ UNCHANGED boardVars
  /\ UNCHANGED <<feedVars, formVars, panelVars, label>>
  /\ UNCHANGED <<storeVars, meetingId, viewParticipants, timerVars, pc, hist>>

\* a response arrives: setParticipants(data)
fetchParticipants_set(c) ==
  \E data \in inflight[c] :
    /\ viewParticipants' = [viewParticipants EXCEPT ![c] = data]
    /\ inflight' = [inflight EXCEPT ![c] = @ \ {data}]
    /\ UNCHANGED toast
    /\ UNCHANGED boardVars
    /\ UNCHANGED <<feedVars, formVars, panelVars, label>>
    /\ UNCHANGED <<storeVars, meetingId, fetchPending, timerVars, pc, hist>>

\* ------------------------- ParticipantsNameList.toggleParticipantSpeaking
\* click on a name: newStatus = !participant.is_currently_speaking
toggleParticipantSpeaking_click(c, p) ==
  /\ pc[c].op = "idle"
  /\ p \in DOMAIN viewParticipants[c]
  /\ LET newStatus == ~viewParticipants[c][p].is_currently_speaking
     IN pc' = [pc EXCEPT ![c] =
                 [Idle EXCEPT !.pre = participants, !.prev = hist[c], !.op = "toggle", !.p = p, !.status = newStatus,
                              !.step = IF newStatus THEN "clear" ELSE "set"]]
  /\ hist' = [hist EXCEPT ![c] = NoHist]
  /\ toast' = [toast EXCEPT ![c] = "none"]
  /\ UNCHANGED boardVars
  /\ UNCHANGED <<feedVars, formVars, panelVars, label>>
  /\ UNCHANGED <<storeVars, meetingId, viewParticipants, fetchPending, inflight, timerVars>>

\* if (newStatus): clear every flag of the meeting; the result is not looked at
toggleParticipantSpeaking_clear(c, ok) ==
  /\ pc[c].op = "toggle" /\ pc[c].step = "clear"
  /\ participants' = IF ok THEN UpdateSpeakingByMeeting(participants, meetingId[c], FALSE)
                     ELSE participants
  /\ pc' = Step(c, [pc[c] EXCEPT !.ok = @ /\ ok, !.step = "set"])
  /\ fetchPending' = Notify(meetingId[c], participants' # participants)
  /\ hist' = Others(c)
  /\ UNCHANGED toast
  /\ UNCHANGED boardVars
  /\ UNCHANGED <<feedVars, formVars, panelVars, label>>
  /\ UNCHANGED <<speaking_sessions, meetingId, viewParticipants, inflight, timerVars>>

\* set the flag of the selected participant; error is thrown and caught
toggleParticipantSpeaking_set(c, ok) ==
  /\ pc[c].op = "toggle" /\ pc[c].step = "set"
  /\ participants' = IF ok THEN UpdateSpeakingById(participants, pc[c].p, pc[c].status)
                     ELSE participants
  /\ pc' = Step(c, IF ok THEN [pc[c] EXCEPT !.step = IF pc[c].status THEN "insert" ELSE "end"]
                   ELSE Idle)
  /\ fetchPending' = Notify(meetingId[c], participants' # participants)
  /\ hist' = Others(c)
  /\ toast' = [toast EXCEPT ![c] = IF ~ok THEN "destructive" ELSE @]
  /\ UNCHANGED boardVars
  /\ UNCHANGED <<feedVars, formVars, panelVars, label>>
  /\ UNCHANGED <<speaking_sessions, meetingId, viewParticipants, inflight, timerVars>>

\* insert({participant_id, meeting_id, start_time}), then onActiveChange({
\* participantId }): the payload names a column
\* speaking_sessions does not have, the store answers with an error, and
\* sessionError is thrown and caught
toggleParticipantSpeaking_insert(c, ok) ==
  /\ pc[c].op = "toggle" /\ pc[c].step = "insert"
  /\ LET accepted == /\ ok /\ pc[c].p \in DOMAIN participants
                     /\ ColumnsExist({"participant_id", "meeting_id", "start_time"})
     IN /\ speaking_sessions' =
             IF accepted THEN InsertSession(speaking_sessions, pc[c].p, meetingId[c])
             ELSE speaking_sessions
        /\ fetchPending' =
             [d \in Clients |-> IF accepted /\ (d = c \/ meetingId[d] = meetingId[c])
                                THEN TRUE ELSE fetchPending[d]]
  /\ pc' = Step(c, Idle)
  /\ hist' = Others(c)
  /\ toast' = [toast EXCEPT ![c] = IF speaking_sessions' = speaking_sessions
                                    THEN "destructive" ELSE @]
  /\ localCounters' =
       IF speaking_sessions' # speaking_sessions /\ pc[c].p \in DOMAIN viewParticipants[c]
       THEN [localCounters EXCEPT ![c] =
               [p \in {pc[c].p} |->
                  [startTime |-> clock,
                   baseSeconds |-> viewParticipants[c][p].total_speaking_time]]]
       ELSE localCounters
  /\ UNCHANGED <<clock, viewOrder>>
  /\ UNCHANGED <<feedVars, formVars, panelVars, label>>
  /\ UNCHANGED <<participants, meetingId, viewParticipants, inflight, timerVars>>

\* update({end_time}).eq("participant_id", p).is("end_time", null), then
\* onActiveChange(null): the table
\* has no end_time, the store answers with an error, and endError is thrown
toggleParticipantSpeaking_end(c, ok) ==
  /\ pc[c].op = "toggle" /\ pc[c].step = "end"
  /\ LET accepted == ok /\ ColumnsExist({"participant_id", "end_time"})
     IN /\ speaking_sessions' =
             IF accepted
             THEN [i \in 1..Len(speaking_sessions) |->
                     IF speaking_sessions[i].participant_id = pc[c].p
                        /\ speaking_sessions[i].end_time = NULL
                     THEN [speaking_sessions[i] EXCEPT !.end_time = Stamp]
                     ELSE speaking_sessions[i]]
             ELSE speaking_sessions
        /\ fetchPending' =
             [d \in Clients |-> IF accepted /\ (d = c \/ meetingId[d] = meetingId[c])
                                THEN TRUE ELSE fetchPending[d]]
  /\ pc' = Step(c, Idle)
  /\ hist' = Others(c)
  /\ toast' = [toast EXCEPT ![c] = IF ~(ok /\ ColumnsExist({"participant_id", "end_time"})) THEN "destructive" ELSE @]
  /\ localCounters' =
       IF ok /\ ColumnsExist({"participant_id", "end_time"})
       THEN [localCounters EXCEPT ![c] = NoCounters]
       ELSE localCounters
  /\ UNCHANGED <<clock, viewOrder>>
  /\ UNCHANGED <<feedVars, formVars, panelVars, label>>
  /\ UNCHANGED <<participants, meetingId, viewParticipants, inflight, timerVars>>

\* fetchParticipants whose response arrives before anything else happens
fetchParticipants(c, ok) ==
  /\ fetchPending[c]
  /\ inflight[c] = {}
  /\ fetchPending' = [fetchPending EXCEPT ![c] = FALSE]
  /\ viewParticipants' = IF ok THEN [viewParticipants EXCEPT ![c] =
                                       SelectParticipants(participants, meetingId[c])]
                         ELSE viewParticipants
  /\ toast' = [toast EXCEPT ![c] = IF ~ok THEN "destructive" ELSE @]
  /\ UNCHANGED boardVars
  /\ UNCHANGED <<feedVars, formVars, panelVars, label>>
  /\ UNCHANGED <<storeVars, meetingId, inflight, timerVars, pc, hist>>

\* ------------------------------------- ActiveMeetingView with the leaderboard
\* the orders in which .order("total_speaking_time", { ascending: false })
\* may return the rows data: rows with equal totals come in any order
Orders(data) ==
  {s \in [1..Cardinality(DOMAIN data) -> DOMAIN data] :
     /\ \A i, j \in DOMAIN s : i # j => s[i] # s[j]
     /\ \A i, j \in DOMAIN s :
          i < j => data[s[i]].total_speaking_time >= data[s[j]].total_speaking_time}

\* participants.find(p => p.is_currently_speaking): positions of the speakers
SpeakingAt(order, data) ==
  {i \in DOMAIN order : data[order[i]].is_currently_speaking}

\* a sync effect that keeps whatever counter the record holds
SyncCounters_keep(order, data, counters, now) ==
  IF SpeakingAt(order, data) = {} THEN NoCounters
  ELSE IF DOMAIN counters # {} THEN counters
  ELSE LET first == CHOOSE i \in SpeakingAt(order, data) :
                      \A j \in SpeakingAt(order, data) : i <= j
       IN [p \in {order[first]} |->
             [startTime |-> now, baseSeconds |-> data[p].total_speaking_time]]

\* the sync effect: a counter for the first speaker of the list unless the
\* record has one for it; no counters when nobody speaks
SyncCounters(order, data, counters, now) ==
  IF SpeakingAt(order, data) # {}
  THEN LET first == CHOOSE i \in SpeakingAt(order, data) :
                      \A j \in SpeakingAt(order, data) : i <= j
           currentSpeaker == order[first]
       IN IF currentSpeaker \in DOMAIN counters THEN counters
          ELSE [p \in {currentSpeaker} |->
                  [startTime |-> now, baseSeconds |-> data[p].total_speaking_time]]
  ELSE NoCounters

\* fetchParticipants of the leaderboard view, then the sync effect on the
\* list it set
fetchParticipants_board(c, ok) ==
  /\ fetchPending[c]
  /\ inflight[c] = {}
  /\ fetchPending' = [fetchPending EXCEPT ![c] = FALSE]
  /\ IF ok
     THEN LET data == SelectParticipants(participants, meetingId[c])
          IN \E order \in Orders(data) :
               /\ viewParticipants' = [viewParticipants EXCEPT ![c] = data]
               /\ viewOrder' = [viewOrder EXCEPT ![c] = order]
               /\ localCounters' = [localCounters EXCEPT ![c] =
                                      SyncCounters(order, data, @, clock)]
     ELSE UNCHANGED <<viewParticipants, viewOrder, localCounters>>
  /\ toast' = [toast EXCEPT ![c] = IF ~ok THEN "destructive" ELSE @]
  /\ UNCHANGED <<feedVars, formVars, panelVars, label>>
  /\ UNCHANGED <<storeVars, meetingId, inflight, timerVars, pc, clock, hist>>

\* time passes
advanceClock ==
  /\ clock < MaxClock
  /\ clock' = clock + 1
  /\ UNCHANGED <<feedVars, formVars, panelVars, label>>
  /\ UNCHANGED <<storeVars, meetingId, viewParticipants, fetchPending, inflight, timerVars,
                 pc, localCounters, viewOrder, toast, hist>>

\* a live counter that never advances
getLiveSeconds_zero(c, p) == 0

\* getLiveSeconds(p): whole seconds since the counter of p was started
getLiveSeconds(c, p) ==
  IF p \notin DOMAIN localCounters[c] \/ ~viewParticipants[c][p].is_currently_speaking
  THEN 0
  ELSE (clock - localCounters[c][p].startTime) \div UnitsPerSecond

\* the leaderboard's displayTime of p
displayTime(c, p) ==
  IF viewParticipants[c][p].is_currently_speaking
  THEN viewParticipants[c][p].total_speaking_time + getLiveSeconds(c, p)
  ELSE viewParticipants[c][p].total_speaking_time

\* where x enters a list sorted by descending displayTime: behind every
\* element that is not smaller, so that equal elements keep their order
RECURSIVE insertStable(_, _, _)
insertStable(c, x, s) ==
  IF s = <<>> THEN <<x>>
  ELSE IF displayTime(c, Head(s)) >= displayTime(c, x)
       THEN <<Head(s)>> \o insertStable(c, x, Tail(s))
       ELSE <<x>> \o s

\* withLive.sort((a, b) => b.total - a.total): Array.prototype.sort is stable
RECURSIVE sortByTotal(_, _)
sortByTotal(c, s) ==
  IF s = <<>> THEN <<>>
  ELSE insertStable(c, s[Len(s)], sortByTotal(c, SubSeq(s, 1, Len(s) - 1)))

\* a render that lists the rows as fetched
Leaderboard_asFetched(c) == viewOrder[c]

\* the rows of the rendered leaderboard, top to bottom
Leaderboard(c) == sortByTotal(c, viewOrder[c])

\* ------------------------------------ ParticipantsNameList: add and remove
\* the deleted row of a table whose ids are positions
Deleted == [participant_id |-> "none", meeting_id |-> "none", ended_at |-> NULL, duration |-> NULL]

\* .from('participants').delete().eq('id', id)
DeleteParticipant(tbl, id) == [p \in DOMAIN tbl \ {id} |-> tbl[p]]

\* a foreign key without the cascade
CascadeSessions_keep(ss, id) == ss

\* participant_id ... REFERENCES public.participants(id) ON DELETE CASCADE
CascadeSessions(ss, id) ==
  [i \in 1..Len(ss) |-> IF ss[i].participant_id = id THEN Deleted ELSE ss[i]]

\* .from('participants').insert([...]): a row with a new id
InsertParticipant(tbl, id, m) ==
  [p \in DOMAIN tbl \cup {id} |-> IF p = id THEN NewParticipant(m) ELSE tbl[p]]

\* removeParticipant: delete the row; error is thrown and caught; onUpdate and
\* a toast on success
removeParticipant(c, p, ok) ==
  /\ p \in DOMAIN viewParticipants[c]
  /\ participants' = IF ok THEN DeleteParticipant(participants, p) ELSE participants
  /\ speaking_sessions' = IF ok /\ p \in DOMAIN participants
                          THEN CascadeSessions(speaking_sessions, p) ELSE speaking_sessions
  /\ fetchPending' = [d \in Clients |->
                       IF (ok /\ d = c) \/ (participants' # participants /\ meetingId[d] = meetingId[c])
                       THEN TRUE ELSE fetchPending[d]]
  /\ toast' = [toast EXCEPT ![c] = IF ok THEN "default" ELSE "destructive"]
  /\ pc' = Step(c, pc[c])
  /\ hist' = [d \in Clients |-> NoHist]
  /\ UNCHANGED boardVars
  /\ UNCHANGED <<feedVars, formVars, panelVars, label>>
  /\ UNCHANGED <<meetingId, viewParticipants, inflight, timerVars>>

\* addParticipant: insert a row with the defaults written out; error is thrown
\* and caught; onUpdate and a toast on success
addParticipant(c, id, ok) ==
  /\ id \in PIds \ InitialPIds
  /\ id \notin DOMAIN participants
  /\ \A d \in Clients : id \notin DOMAIN viewParticipants[d]
  /\ participants' = IF ok THEN InsertParticipant(participants, id, meetingId[c])
                     ELSE participants
  /\ fetchPending' = Notify(meetingId[c], ok)
  /\ toast' = [toast EXCEPT ![c] = IF ok THEN "default" ELSE "destructive"]
  /\ pc' = Step(c, pc[c])
  /\ hist' = [d \in Clients |-> NoHist]
  /\ UNCHANGED boardVars
  /\ UNCHANGED <<feedVars, formVars, panelVars, label>>
  /\ UNCHANGED <<speaking_sessions, meetingId, viewParticipants, inflight, timerVars>>

\* ------------------------------------------ CreateMeetingDialog.handleCreate
\* the participants insert of handleCreate for the new meeting m: rows with
\* meeting_id and name only, everything else by default
handleCreate_participants(c, m, ids, ok) ==
  /\ m \notin {meetingId[d] : d \in Clients}
  /\ \A p \in DOMAIN participants : participants[p].meeting_id # m
  /\ ids # {}
  /\ ids \subseteq PIds \ InitialPIds
  /\ ids \cap DOMAIN participants = {}
  /\ \A d \in Clients : ids \cap DOMAIN viewParticipants[d] = {}
  /\ participants' = IF ok
                     THEN [p \in DOMAIN participants \cup ids |->
                             IF p \in ids THEN NewParticipant(m) ELSE participants[p]]
                     ELSE participants
  /\ toast' = [toast EXCEPT ![c] = IF ok THEN "default" ELSE "destructive"]
  /\ pc' = Step(c, pc[c])
  /\ hist' = [d \in Clients |-> NoHist]
  /\ UNCHANGED boardVars
  /\ UNCHANGED <<feedVars, formVars, panelVars, label>>
  /\ UNCHANGED <<speaking_sessions, meetingId, viewParticipants, fetchPending, inflight,
                 timerVars>>

\* ------------------------------------- MeetingDashboard and the meeting view
appVars == <<storeVars, meetingId, viewParticipants, fetchPending, inflight,
             timerVars, pc, boardVars, toast, hist, formVars, questions, subjects,
             label>>

\* MeetingDashboard mounts: its effect subscribes to meetings; activeMeeting
\* is null until fetchMeetings returns
openPage(c) ==
  /\ ~page[c]
  /\ page' = [page EXCEPT ![c] = TRUE]
  /\ channels' = [channels EXCEPT ![c] =
                    Commit(@, FALSE, "none", "leaderboard", TRUE, "none", "leaderboard")]
  /\ UNCHANGED <<activeMeeting, activeTab, hasNew, panel, panelPending>>
  /\ UNCHANGED appVars

\* MeetingDashboard unmounts, and with it the meeting view and its panel
leavePage(c) ==
  /\ page[c]
  /\ page' = [page EXCEPT ![c] = FALSE]
  /\ activeMeeting' = [activeMeeting EXCEPT ![c] = "none"]
  /\ activeTab' = [activeTab EXCEPT ![c] = "leaderboard"]
  /\ hasNew' = [hasNew EXCEPT ![c] = NoNews]
  /\ channels' = [channels EXCEPT ![c] =
                    Commit(@, TRUE, activeMeeting[c], activeTab[c],
                           FALSE, "none", "leaderboard")]
  /\ panel' = [panel EXCEPT ![c] = PanelInit]
  /\ panelPending' = [panelPending EXCEPT ![c] = NoPending]
  /\ UNCHANGED appVars

\* setActiveMeeting(m): from fetchMeetings (the active meeting, or null) or
\* from the click on a meeting of the list; the view mounts, unmounts (its
\* state is lost) or gets another meeting prop (its state is kept)
setActiveMeeting(c, m) ==
  /\ page[c]
  /\ m # activeMeeting[c]
  /\ activeMeeting' = [activeMeeting EXCEPT ![c] = m]
  /\ activeTab' = [activeTab EXCEPT ![c] = IF m = "none" THEN "leaderboard" ELSE @]
  /\ hasNew' = [hasNew EXCEPT ![c] = IF m = "none" THEN NoNews ELSE @]
  /\ channels' = [channels EXCEPT ![c] =
                    Commit(@, TRUE, activeMeeting[c], activeTab[c],
                           TRUE, m, activeTab'[c])]
  /\ panel' = [panel EXCEPT ![c] = PanelAfter(@, TRUE, m, activeTab'[c])]
  /\ panelPending' = [panelPending EXCEPT ![c] =
                        PendingAfter(@, TRUE, activeMeeting[c], activeTab[c],
                                     TRUE, m, activeTab'[c])]
  /\ UNCHANGED page
  /\ UNCHANGED appVars

\* a tab change that clears no notification
ClearNews_keep(news, value) == news

\* if (value === 'subjects') setHasNewSubjects(false);
\* if (value === 'questions') setHasNewQuestions(false)
ClearNews(news, value) ==
  [t \in DOMAIN news |-> IF t = value THEN FALSE ELSE news[t]]

\* Tabs onValueChange(value): setActiveTab, clear the tab's notification;
\* the subscription effect re-runs on the new activeTab
onValueChange(c, value) ==
  /\ page[c]
  /\ activeMeeting[c] # "none"
  /\ value # activeTab[c]
  /\ activeTab' = [activeTab EXCEPT ![c] = value]
  /\ hasNew' = [hasNew EXCEPT ![c] = ClearNews(@, value)]
  /\ channels' = [channels EXCEPT ![c] =
                    Commit(@, TRUE, activeMeeting[c], activeTab[c],
                           TRUE, activeMeeting[c], value)]
  /\ panel' = [panel EXCEPT ![c] = PanelAfter(@, TRUE, activeMeeting[c], value)]
  /\ panelPending' = [panelPending EXCEPT ![c] =
                        PendingAfter(@, TRUE, activeMeeting[c], activeTab[c],
                                     TRUE, activeMeeting[c], value)]
  /\ UNCHANGED <<page, activeMeeting>>
  /\ UNCHANGED appVars

\* a row is inserted in table t (subjects or questions) for meeting m: the
\* callback of every view subscribed to t for m sets the notification
\* unless t is its active tab
feedInsert(t, m) ==
  /\ hasNew' = [c \in Clients |->
                  IF /\ channels[c][<<"ActiveMeetingView", t>>] > 0
                     /\ activeMeeting[c] = m
                     /\ activeTab[c] # t
                  THEN [hasNew[c] EXCEPT ![t] = TRUE]
                  ELSE hasNew[c]]
  /\ hasNew' # hasNew
  /\ UNCHANGED <<page, activeMeeting, activeTab, channels, panel, panelPending>>
  /\ UNCHANGED appVars

\* ------------------------------------------ CreateMeetingDialog, end meeting
storeAndViews == <<speaking_sessions, meetingId, viewParticipants, inflight,
                   timerVars, pc, boardVars, hist, questions, subjects, label>>

\* the meetings-changes feed: every mounted dashboard re-fetches the meetings
NotifyMeetings(c, changed, own) ==
  [d \in Clients |->
     IF (changed /\ page[d]) \/ (own /\ d = c) THEN TRUE ELSE meetingsPending[d]]

\* the title field is edited
setTitle(c, t) ==
  /\ creating[c].step = "idle"
  /\ t # title[c]
  /\ title' = [title EXCEPT ![c] = t]
  /\ UNCHANGED <<meetings, meetingsPending, creating, formParticipants>>
  /\ UNCHANGED <<storeAndViews, panel, panelPending, participants, fetchPending, toast, feedVars>>

\* updateParticipant(index, name), and the add / remove row buttons
updateParticipant(c, index, name) ==
  /\ creating[c].step = "idle"
  /\ index \in DOMAIN formParticipants[c]
  /\ name # formParticipants[c][index]
  /\ formParticipants' = [formParticipants EXCEPT ![c][index] = name]
  /\ UNCHANGED <<meetings, meetingsPending, creating, title>>
  /\ UNCHANGED <<storeAndViews, panel, panelPending, participants, fetchPending, toast, feedVars>>

form_addParticipant(c) ==
  /\ creating[c].step = "idle"
  /\ Len(formParticipants[c]) < MaxNames
  /\ formParticipants' = [formParticipants EXCEPT ![c] = Append(@, <<>>)]
  /\ UNCHANGED <<meetings, meetingsPending, creating, title>>
  /\ UNCHANGED <<storeAndViews, panel, panelPending, participants, fetchPending, toast, feedVars>>

form_removeParticipant(c, index) ==
  /\ creating[c].step = "idle"
  /\ index \in DOMAIN formParticipants[c]
  /\ Len(formParticipants[c]) > 1
  /\ formParticipants' = [formParticipants EXCEPT ![c] =
         SubSeq(@, 1, index - 1) \o SubSeq(@, index + 1, Len(@))]
  /\ UNCHANGED <<meetings, meetingsPending, creating, title>>
  /\ UNCHANGED <<storeAndViews, panel, panelPending, participants, fetchPending, toast, feedVars>>

\* handlers that will still insert a meeting (keeps the ids within MeetingIds)
MeetingsAhead ==
  Cardinality({d \in Clients : creating[d].step \in {"deactivate", "insert"}})

\* handleCreate up to its first remote call: the two validations, each with
\* an error toast and a return, then setLoading(true)
handleCreate_click(c) ==
  /\ creating[c].step = "idle"
  /\ Cardinality(DOMAIN meetings) + MeetingsAhead < Cardinality(MeetingIds)
  /\ IF trim(title[c]) = <<>> \/ validParticipants(formParticipants[c]) = <<>>
     THEN /\ toast' = [toast EXCEPT ![c] = "destructive"]
          /\ UNCHANGED creating
     ELSE /\ toast' = [toast EXCEPT ![c] = "none"]
          /\ creating' = [creating EXCEPT ![c] =
                 [step |-> "deactivate", m |-> "none",
                  names |-> validParticipants(formParticipants[c])]]
  /\ UNCHANGED <<meetings, meetingsPending, title, formParticipants>>
  /\ UNCHANGED <<storeAndViews, panel, panelPending, participants, fetchPending, feedVars>>

\* end any existing active meetings; the result is not looked at
handleCreate_deactivate(c, ok) ==
  /\ creating[c].step = "deactivate"
  /\ meetings' = IF ok THEN EndActive(meetings) ELSE meetings
  /\ meetingsPending' = NotifyMeetings(c, meetings' # meetings, FALSE)
  /\ creating' = [creating EXCEPT ![c].step = "insert"]
  /\ UNCHANGED <<title, formParticipants>>
  /\ UNCHANGED <<storeAndViews, panel, panelPending, participants, fetchPending, toast, feedVars>>

\* create the new meeting; meetingError is thrown: error toast, loading off
handleCreate_insert(c, ok) ==
  /\ creating[c].step = "insert"
  /\ \E id \in MeetingIds \ DOMAIN meetings :
       /\ meetings' = IF ok THEN InsertMeeting(meetings, id) ELSE meetings
       /\ creating' = [creating EXCEPT ![c] =
              IF ok THEN [@ EXCEPT !.step = "participants", !.m = id]
              ELSE NotCreating]
  /\ meetingsPending' = NotifyMeetings(c, ok, FALSE)
  /\ toast' = [toast EXCEPT ![c] = IF ok THEN @ ELSE "destructive"]
  /\ UNCHANGED <<title, formParticipants>>
  /\ UNCHANGED <<storeAndViews, panel, panelPending, participants, fetchPending, feedVars>>

\* add the participants; on success the toast, the form reset and
\* onMeetingCreated (fetchMeetings); participantsError is thrown
handleCreate_insertParticipants(c, ok) ==
  /\ creating[c].step = "participants"
  /\ LET names == creating[c].names
         ids == {RowId(creating[c].m, i) : i \in DOMAIN names}
         nameOf == [p \in ids |->
                      trim(names[CHOOSE i \in DOMAIN names : RowId(creating[c].m, i) = p])]
     IN participants' =
          IF ok THEN [p \in DOMAIN participants \cup ids |->
                        IF p \in ids THEN Named(NewParticipant(creating[c].m), nameOf[p])
                        ELSE participants[p]]
          ELSE participants
  /\ fetchPending' = Notify(creating[c].m, ok)
  /\ toast' = [toast EXCEPT ![c] = IF ok THEN "default" ELSE "destructive"]
  /\ title' = [title EXCEPT ![c] = IF ok THEN <<>> ELSE @]
  /\ formParticipants' = [formParticipants EXCEPT ![c] = IF ok THEN << <<>> >> ELSE @]
  /\ meetingsPending' = NotifyMeetings(c, FALSE, ok)
  /\ creating' = [creating EXCEPT ![c] = NotCreating]
  /\ UNCHANGED meetings
  /\ UNCHANGED <<storeAndViews, panel, panelPending, feedVars>>

\* handleEndMeeting(meetingId) from the End Meeting button of the view: the
\* update of that meeting; error thrown and caught; toast and fetchMeetings
handleEndMeeting(c, ok) ==
  /\ page[c]
  /\ activeMeeting[c] \in DOMAIN meetings
  /\ meetings' = IF ok THEN EndMeeting(meetings, activeMeeting[c]) ELSE meetings
  /\ meetingsPending' = NotifyMeetings(c, meetings' # meetings, ok)
  /\ toast' = [toast EXCEPT ![c] = IF ok THEN "default" ELSE "destructive"]
  /\ UNCHANGED dialogVars
  /\ UNCHANGED <<storeAndViews, panel, panelPending, participants, fetchPending, feedVars>>

\* a find over the meetings by created_at ascending
ActiveOf_oldest(tbl) ==
  IF \A m \in DOMAIN tbl : ~tbl[m].is_active THEN "none"
  ELSE CHOOSE m \in DOMAIN tbl :
         /\ tbl[m].is_active
         /\ \A k \in DOMAIN tbl : tbl[k].is_active => tbl[k].created_at >= tbl[m].created_at

\* data.find(m => m.is_active) over the meetings by created_at descending
ActiveOf(tbl) ==
  IF \A m \in DOMAIN tbl : ~tbl[m].is_active THEN "none"
  ELSE CHOOSE m \in DOMAIN tbl :
         /\ tbl[m].is_active
         /\ \A k \in DOMAIN tbl : tbl[k].is_active => tbl[k].created_at <= tbl[m].created_at

\* fetchMeetings: setMeetings, setActiveMeeting(active || null); the view
\* mounts, unmounts or gets the other meeting. A view that mounts starts with
\* no participants and fresh timer cards; a view that stays mounted keeps its
\* participants state and its cards while its meeting prop changes, and its
\* effect on meeting.id fetches the participants again
fetchMeetings(c) ==
  /\ page[c]
  /\ meetingsPending[c]
  /\ meetingsPending' = [meetingsPending EXCEPT ![c] = FALSE]
  /\ LET m == ActiveOf(meetings)
         kept == m # "none" /\ activeMeeting[c] # "none"
     IN /\ activeMeeting' = [activeMeeting EXCEPT ![c] = m]
        /\ activeTab' = [activeTab EXCEPT ![c] = IF m = "none" THEN "leaderboard" ELSE @]
        /\ hasNew' = [hasNew EXCEPT ![c] = IF m = "none" THEN NoNews ELSE @]
        /\ channels' = [channels EXCEPT ![c] =
                          Commit(@, TRUE, activeMeeting[c], activeTab[c],
                                 TRUE, m, activeTab'[c])]
        /\ panel' = [panel EXCEPT ![c] = PanelAfter(@, TRUE, m, activeTab'[c])]
        /\ panelPending' = [panelPending EXCEPT ![c] =
                              PendingAfter(@, TRUE, activeMeeting[c], activeTab[c],
                                           TRUE, m, activeTab'[c])]
        /\ meetingId' = [meetingId EXCEPT ![c] = IF m = "none" THEN @ ELSE m]
        /\ viewParticipants' = [viewParticipants EXCEPT ![c] = IF kept THEN @ ELSE <<>>]
        /\ currentSessionTime' =
             [currentSessionTime EXCEPT ![c] = IF kept THEN @ ELSE [p \in PIds |-> 0]]
        /\ activeSessionId' =
             [activeSessionId EXCEPT ![c] = IF kept THEN @ ELSE [p \in PIds |-> NULL]]
        /\ fetchPending' = [fetchPending EXCEPT ![c] =
                              IF m = "none" THEN FALSE
                              ELSE IF m # activeMeeting[c] THEN TRUE ELSE @]
        /\ inflight' = [inflight EXCEPT ![c] = IF kept THEN @ ELSE {}]
  /\ UNCHANGED <<page, meetings, dialogVars>>
  /\ UNCHANGED <<speaking_sessions, pc, boardVars, hist, questions, subjects>>
  /\ UNCHANGED <<participants, toast, label>>

\* ------------------------------------------- QuestionsPanel, SubjectsPanel
panelFrame == <<participants, speaking_sessions, meetingId, viewParticipants,
                fetchPending, inflight, timerVars, pc, boardVars, hist, formVars,
                page, activeMeeting, activeTab, channels, label>>

\* the panel of tab t is rendered on client c
PanelMounted(c, t) == page[c] /\ activeMeeting[c] # "none" /\ activeTab[c] = t

\* a field of a panel's form is edited
setField(c, t, f, v) ==
  /\ PanelMounted(c, t)
  /\ v # panel[c][f]
  /\ panel' = [panel EXCEPT ![c][f] = v]
  /\ UNCHANGED <<questions, subjects, panelPending, hasNew, toast>>
  /\ UNCHANGED panelFrame

\* the rows in reverse order
RECURSIVE Reverse(_)
Reverse(s) == IF s = <<>> THEN <<>> ELSE Append(Reverse(Tail(s)), Head(s))

\* .select("*").eq("meeting_id", m).order("created_at", {ascending: false})
SelectByMeeting(tbl, m) == Reverse(SelectSeq(tbl, LAMBDA r : r.meeting_id = m))

\* the INSERT callbacks of the views subscribed to table t for meeting m
NewsAfter(t, m) ==
  [d \in Clients |->
     IF /\ channels[d][<<"ActiveMeetingView", t>>] > 0
        /\ activeMeeting[d] = m
        /\ activeTab[d] # t
     THEN [hasNew[d] EXCEPT ![t] = TRUE]
     ELSE hasNew[d]]

\* the callbacks of the questions panels subscribed for meeting m
QuestionsNotify(m, changed) ==
  [d \in Clients |->
     IF changed /\ channels[d][<<"QuestionsPanel", "questions">>] > 0 /\ activeMeeting[d] = m
     THEN [panelPending[d] EXCEPT !.questions = TRUE]
     ELSE panelPending[d]]

\* a submit that stores the name field whatever the anonymous switch says
askerNameOf_typed(st) == Text(trim(st.askerName))

\* asker_name: isAnonymous ? null : askerName.trim()
askerNameOf(st) == IF st.isAnonymous THEN Null ELSE Text(trim(st.askerName))

\* submitQuestion: the two validations, each with an error toast and a
\* return; the insert; on success the question field is cleared; toast
submitQuestion(c, ok) ==
  /\ PanelMounted(c, "questions")
  /\ Len(questions) < MaxPosts
  /\ LET st == panel[c]
         valid == /\ trim(st.newQuestion) # <<>>
                  /\ st.isAnonymous \/ trim(st.askerName) # <<>>
         row == [meeting_id |-> activeMeeting[c], question |-> trim(st.newQuestion),
                 asker_name |-> askerNameOf(st), is_answered |-> FALSE]
     IN /\ questions' = IF valid /\ ok THEN Append(questions, row) ELSE questions
        /\ panel' = [panel EXCEPT ![c].newQuestion = IF valid /\ ok THEN <<>> ELSE @]
        /\ toast' = [toast EXCEPT ![c] = IF valid /\ ok THEN "default" ELSE "destructive"]
        /\ panelPending' = QuestionsNotify(activeMeeting[c], valid /\ ok)
        /\ hasNew' = IF valid /\ ok THEN NewsAfter("questions", activeMeeting[c]) ELSE hasNew
  /\ UNCHANGED subjects
  /\ UNCHANGED panelFrame

\* fetchQuestions: setQuestions(data); error thrown and caught, toast
fetchQuestions(c, ok) ==
  /\ PanelMounted(c, "questions")
  /\ panelPending[c].questions
  /\ panelPending' = [panelPending EXCEPT ![c].questions = FALSE]
  /\ panel' = [panel EXCEPT ![c].questions =
                 IF ok THEN SelectByMeeting(questions, activeMeeting[c]) ELSE @]
  /\ toast' = [toast EXCEPT ![c] = IF ok THEN @ ELSE "destructive"]
  /\ UNCHANGED <<questions, subjects, hasNew>>
  /\ UNCHANGED panelFrame

\* description: newDescription.trim() || null
descriptionOf(st) ==
  IF trim(st.newDescription) = <<>> THEN Null ELSE Text(trim(st.newDescription))

\* addSubject: the validation with an error toast and a return; the insert;
\* on success the fields are cleared, fetchSubjects, toast
addSubject(c, ok) ==
  /\ PanelMounted(c, "subjects")
  /\ Len(subjects) < MaxPosts
  /\ LET st == panel[c]
         valid == trim(st.newTitle) # <<>>
         row == [meeting_id |-> activeMeeting[c], title |-> trim(st.newTitle),
                 description |-> descriptionOf(st)]
     IN /\ subjects' = IF valid /\ ok THEN Append(subjects, row) ELSE subjects
        /\ panel' = [panel EXCEPT ![c].newTitle = IF valid /\ ok THEN <<>> ELSE @,
                                  ![c].newDescription = IF valid /\ ok THEN <<>> ELSE @]
        /\ toast' = [toast EXCEPT ![c] = IF valid /\ ok THEN "default" ELSE "destructive"]
        /\ panelPending' = [panelPending EXCEPT ![c].subjects = IF valid /\ ok THEN TRUE ELSE @]
        /\ hasNew' = IF valid /\ ok THEN NewsAfter("subjects", activeMeeting[c]) ELSE hasNew
  /\ UNCHANGED questions
  /\ UNCHANGED panelFrame

\* fetchSubjects: setSubjects(data); error thrown and caught, toast
fetchSubjects(c, ok) ==
  /\ PanelMounted(c, "subjects")
  /\ panelPending[c].subjects
  /\ panelPending' = [panelPending EXCEPT ![c].subjects = FALSE]
  /\ panel' = [panel EXCEPT ![c].subjects =
                 IF ok THEN SelectByMeeting(subjects, activeMeeting[c]) ELSE @]
  /\ toast' = [toast EXCEPT ![c] = IF ok THEN @ ELSE "destructive"]
  /\ UNCHANGED <<questions, subjects, hasNew>>
  /\ UNCHANGED panelFrame

\* the asker line of a listed question: the name, or Anonymous
Label(q) ==
  IF ~q.asker_name.null /\ q.asker_name.text # <<>>
  THEN [icon |-> "User", text |-> q.asker_name.text]
  ELSE [icon |-> "UserX", text |-> <<"Anonymous">>]

\* the asker lines of the questions QuestionsPanel lists
Listing(c) == [i \in DOMAIN panel[c].questions |-> Label(panel[c].questions[i])]

\* ----------------------------------------------------------- specifications
\* the handlers of a ParticipantTimer view
TimerOp(c, ok) ==
  \/ \E p \in PIds : startSpeaking_clear(c, p, ok)
  \/ startSpeaking_select(c, ok)
  \/ startSpeaking_close(c, ok)
  \/ startSpeaking_insert(c, ok)
  \/ startSpeaking_flag(c, ok)
  \/ startSpeaking_finish(c)
  \/ \E p \in PIds : stopSpeaking_click(c, p)
  \/ stopSpeaking_close(c, ok)
  \/ stopSpeaking_stats(c, ok)
  \/ stopSpeaking_finish(c)

\* the handler of a ParticipantsNameList view
ListOp(c, ok) ==
  \/ \E p \in PIds : toggleParticipantSpeaking_click(c, p)
  \/ toggleParticipantSpeaking_clear(c, ok)
  \/ toggleParticipantSpeaking_set(c, ok)
  \/ toggleParticipantSpeaking_insert(c, ok)
  \/ toggleParticipantSpeaking_end(c, ok)

\* one client with the ParticipantTimer view, its timers ticking, its
\* re-fetches answered in any order; no call fails
NextTimer ==
  \/ TimerOp("c1", TRUE)
  \/ \E p \in PIds : tick("c1", p)
  \/ fetchParticipants_select("c1", TRUE)
  \/ fetchParticipants_set("c1")

SpecTimer == Init /\ [][NextTimer]_vars

\* two clients with the ParticipantTimer view, their calls interleaved in any
\* order; no call fails
NextRace == \E c \in Clients : TimerOp(c, TRUE) \/ fetchParticipants(c, TRUE)

SpecRace == Init /\ [][NextRace]_vars

\* one client using both views; any call may fail
NextFail ==
  \E ok \in BOOLEAN : TimerOp("c1", ok) \/ ListOp("c1", ok) \/ fetchParticipants("c1", ok)

SpecFail == Init /\ [][NextFail]_vars

\* one client starting and stopping speakers and editing the participants;
\* the calls of the speaking handlers succeed, an edit may fail
EditOp(c, ok) ==
  \/ \E p \in PIds : removeParticipant(c, p, ok)
  \/ \E id \in PIds : addParticipant(c, id, ok)
  \/ \E m \in Meetings, ids \in SUBSET PIds : handleCreate_participants(c, m, ids, ok)

NextEdit ==
  \/ TimerOp("c1", TRUE)
  \/ fetchParticipants("c1", TRUE)
  \/ \E ok \in BOOLEAN : EditOp("c1", ok)

SpecEdit == Init /\ [][NextEdit]_vars

\* client c1 starts and stops speakers, client c2 only watches: it learns the
\* speaker from the change feed and its timers tick; no call fails
NextWatch ==
  \/ TimerOp("c1", TRUE)
  \/ \E c \in Clients : fetchParticipants(c, TRUE)
  \/ \E c \in Clients, p \in PIds : tick(c, p)

SpecWatch == Init /\ [][NextWatch]_vars

\* client c1 watches the leaderboard view, client c2 starts and stops speakers
\* in the ParticipantTimer view; time passes; no call fails
NextBoard ==
  \/ fetchParticipants_board("c1", TRUE)
  \/ TimerOp("c2", TRUE)
  \/ fetchParticipants("c2", TRUE)
  \/ \E p \in PIds : tick("c2", p)
  \/ advanceClock

SpecBoard == Init /\ [][NextBoard]_vars

\* the Start Speaking button of a ParticipantTimer view
StartOp(c, ok) ==
  \/ \E p \in PIds : startSpeaking_clear(c, p, ok)
  \/ startSpeaking_select(c, ok)
  \/ startSpeaking_close(c, ok)
  \/ startSpeaking_insert(c, ok)
  \/ startSpeaking_flag(c, ok)
  \/ startSpeaking_finish(c)

\* the leaderboard of client c1 while client c2 adds a participant to the
\* meeting and starts speakers from its ParticipantTimer view; time passes;
\* no call fails
NextRank ==
  \/ fetchParticipants_board("c1", TRUE)
  \/ StartOp("c2", TRUE)
  \/ \E id \in PIds : addParticipant("c2", id, TRUE)
  \/ advanceClock

SpecRank == Init /\ [][NextRank]_vars

\* the meeting view of client c shows the meeting its timers work on
ViewShown(c) == page[c] /\ activeMeeting[c] = meetingId[c]

\* client c1 starts speakers in the meeting view and ends the meeting, the
\* end failing or not; the dashboard re-fetches the meetings
NextEnd ==
  \/ ViewShown("c1") /\ StartOp("c1", TRUE)
  \/ ViewShown("c1") /\ fetchParticipants("c1", TRUE)
  \/ \E ok \in BOOLEAN : handleEndMeeting("c1", ok)
  \/ fetchMeetings("c1")

SpecEnd == Init /\ [][NextEnd]_vars

\* the Stop Speaking button of a ParticipantTimer view
StopOp(c, ok) ==
  \/ \E p \in PIds : stopSpeaking_click(c, p)
  \/ stopSpeaking_close(c, ok)
  \/ stopSpeaking_stats(c, ok)
  \/ stopSpeaking_finish(c)

\* both clients start speakers; client c2 sees the speakers that client c1
\* started through the feed, ticks and stops any speaker, started by itself
\* or not; no call fails
NextHandover ==
  \/ \E c \in Clients : StartOp(c, TRUE)
  \/ \E c \in Clients : fetchParticipants(c, TRUE)
  \/ \E p \in PIds : tick("c2", p)
  \/ StopOp("c2", TRUE)

SpecHandover == Init /\ [][NextHandover]_vars

\* client c1 uses the leaderboard view with the name list while client c2
\* starts speakers from the ParticipantTimer view it loaded, their calls
\* interleaved in any order; time passes; no call fails
NextBoardRace ==
  \/ ListOp("c1", TRUE)
  \/ fetchParticipants_board("c1", TRUE)
  \/ StartOp("c2", TRUE)
  \/ advanceClock

SpecBoardRace == Init /\ [][NextBoardRace]_vars

\* client c1 starts speakers and re-fetches, the responses of overlapping
\* re-fetches returning in any order; every pending re-fetch is eventually
\* served and every response eventually delivered; no call fails
NextSettle ==
  \/ StartOp("c1", TRUE)
  \/ fetchParticipants_select("c1", TRUE)
  \/ fetchParticipants_set("c1")

SpecSettle ==
  /\ Init
  /\ [][NextSettle]_vars
  /\ WF_vars(fetchParticipants_select("c1", TRUE))
  /\ WF_vars(fetchParticipants_set("c1"))

\* the dashboard and the meeting view of every client: opening and leaving
\* the page, meetings starting and ending, tab changes, feed events
NextFeed ==
  \/ \E c \in Clients :
       \/ openPage(c)
       \/ leavePage(c)
       \/ \E m \in Meetings \cup {"none"} : setActiveMeeting(c, m)
       \/ \E value \in Tabs : onValueChange(c, value)
  \/ \E t \in {"subjects", "questions"}, m \in Meetings : feedInsert(t, m)

SpecFeed == Init /\ [][NextFeed]_vars

\* the form of the create dialog filled with a title and a name
FillForm(c) ==
  \/ setTitle(c, <<"a">>)
  \/ updateParticipant(c, 1, <<"a">>)

\* the steps of handleCreate
CreateOp(c, ok) ==
  \/ handleCreate_click(c)
  \/ handleCreate_deactivate(c, ok)
  \/ handleCreate_insert(c, ok)
  \/ handleCreate_insertParticipants(c, ok)

\* every client creates and ends meetings from its dashboard, the steps of
\* their handlers interleaved in any order; no call fails
NextMeetings ==
  \E c \in Clients :
    \/ FillForm(c)
    \/ CreateOp(c, TRUE)
    \/ handleEndMeeting(c, TRUE)
    \/ fetchMeetings(c)

SpecMeetings == Init /\ [][NextMeetings]_vars

\* client c1 asks questions in the questions tab of the meeting view, every
\* field holding any text; calls fail or not
NextQuestions ==
  \/ \E value \in Tabs : onValueChange("c1", value)
  \/ \E t \in Texts : setField("c1", "questions", "newQuestion", t)
  \/ \E t \in Texts : setField("c1", "questions", "askerName", t)
  \/ \E b \in BOOLEAN : setField("c1", "questions", "isAnonymous", b)
  \/ \E ok \in BOOLEAN : submitQuestion("c1", ok)
  \/ \E ok \in BOOLEAN : fetchQuestions("c1", ok)

SpecQuestions == Init /\ [][NextQuestions]_vars

\* texts tried in the fields of the forms: empty, blank, a name, a name
\* after a blank
FewTexts == {<<>>, <<" ">>, <<"a">>, <<" ", "a">>}

\* client c1 fills and submits the create dialog, the question form and the
\* subject form; no call fails
NextValidate ==
  \/ \E t \in FewTexts : setTitle("c1", t)
  \/ \E t \in FewTexts : updateParticipant("c1", 1, t)
  \/ form_addParticipant("c1")
  \/ CreateOp("c1", TRUE)
  \/ \E value \in Tabs : onValueChange("c1", value)
  \/ \E t \in FewTexts : setField("c1", "questions", "newQuestion", t)
  \/ \E t \in FewTexts : setField("c1", "questions", "askerName", t)
  \/ \E b \in BOOLEAN : setField("c1", "questions", "isAnonymous", b)
  \/ submitQuestion("c1", TRUE)
  \/ \E t \in FewTexts : setField("c1", "subjects", "newTitle", t)
  \/ addSubject("c1", TRUE)

SpecValidate == Init /\ [][NextValidate]_vars

\* the dashboard without an active meeting is rendered: the create dialog is
\* within reach
DashboardShown(c) == page[c] /\ activeMeeting[c] = "none"

\* client c2 ends the meeting and creates the next one from its dashboard;
\* client c1 stays in the meeting view and starts speakers from the cards;
\* its re-fetches arrive between its handlers; no call fails
NextSwitch ==
  \/ ViewShown("c2") /\ handleEndMeeting("c2", TRUE)
  \/ fetchMeetings("c2")
  \/ DashboardShown("c2") /\ FillForm("c2")
  \/ DashboardShown("c2") /\ handleCreate_click("c2")
  \/ handleCreate_deactivate("c2", TRUE)
  \/ handleCreate_insert("c2", TRUE)
  \/ handleCreate_insertParticipants("c2", TRUE)
  \/ pc["c1"].op = "idle" /\ fetchMeetings("c1")
  \/ ViewShown("c1") /\ fetchParticipants("c1", TRUE)
  \/ ViewShown("c1") /\ StartOp("c1", TRUE)

SpecSwitch == Init /\ [][NextSwitch]_vars

\* client c1 uses the leaderboard view with the name list and removes
\* participants, a removal failing or not; client c2 starts speakers from the
\* ParticipantTimer view it loaded; time passes
NextRemove ==
  \/ \E p \in PIds, ok \in BOOLEAN : removeParticipant("c1", p, ok)
  \/ fetchParticipants_board("c1", TRUE)
  \/ StartOp("c2", TRUE)
  \/ advanceClock

SpecRemove == Init /\ [][NextRemove]_vars

\* client c1 edits the create dialog (rows added, removed and filled with
\* empty, blank and named texts) and submits it; calls fail or not
NextForm ==
  \/ setTitle("c1", <<"a">>)
  \/ \E i \in 1..MaxNames, t \in FewTexts : updateParticipant("c1", i, t)
  \/ form_addParticipant("c1")
  \/ \E i \in 1..MaxNames : form_removeParticipant("c1", i)
  \/ \E ok \in BOOLEAN : CreateOp("c1", ok)

SpecForm == Init /\ [][NextForm]_vars

\* a render formats a number of seconds, each copy of formatTime applied to it
formatTime_render(s) ==
  /\ label' = [seconds |-> s, timer |-> formatTime(s), board |-> formatTime_board(s),
                cards |-> formatTime_cards(s), list |-> formatTime_list(s)]
  /\ label' # label
  /\ UNCHANGED <<storeVars, meetingId, viewParticipants, fetchPending, inflight,
                 timerVars, pc, boardVars, toast, hist, feedVars, formVars, panelVars>>

\* the first label is rendered for any number of seconds up to MaxSeconds;
\* the labels after it follow the timer, second by second
NextFormat ==
  \E s \in (IF label = NoLabel THEN 0..MaxSeconds
            ELSE {label.seconds + 1} \cap (0..MaxSeconds)) : formatTime_render(s)

SpecFormat == Init /\ [][NextFormat]_vars

\* every client, every handler, every outcome
Next ==
  \E c \in Clients, ok \in BOOLEAN :
    \/ TimerOp(c, ok)
    \/ ListOp(c, ok)
    \/ \E p \in PIds : tick(c, p)
    \/ fetchParticipants_select(c, ok)
    \/ fetchParticipants_set(c)

Spec == Init /\ [][Next]_vars

\* ------------------------------------------------------------------ claims
Speakers(m) ==
  {p \in DOMAIN participants :
     participants[p].meeting_id = m /\ participants[p].is_currently_speaking}

SpeakersIn(tbl, m) ==
  {p \in DOMAIN tbl : tbl[p].meeting_id = m /\ tbl[p].is_currently_speaking}

OpenSessionsOf(p) ==
  {i \in 1..Len(speaking_sessions) :
     speaking_sessions[i].participant_id = p /\ speaking_sessions[i].ended_at = NULL}

OpenSessionsIn(m) ==
  {i \in 1..Len(speaking_sessions) :
     speaking_sessions[i].meeting_id = m /\ speaking_sessions[i].ended_at = NULL}

\* startSpeaking of client c has made its last call, none of its calls failed
\* and no call of another client came in between
StartDone(c) ==
  pc[c].op = "start" /\ pc[c].step = "finish" /\ pc[c].ok /\ pc[c].alone

\* C1: after a startSpeaking(p) of meeting m that ran with no failed call and
\* nothing interleaved, the participants of m marked speaking are exactly {p}
C1_MutualExclusionAfterStart ==
  \A c \in Clients : StartDone(c) => Speakers(meetingId[c]) = {pc[c].p}

\* C1 witness: such a start has completed from a store in which two
\* participants of the meeting were marked speaking
C1_Witness ==
  \E c \in Clients :
    /\ StartDone(c)
    /\ Cardinality(SpeakersIn(pc[c].pre, meetingId[c])) = 2
    /\ Speakers("m2") # {}

\* C8: a startSpeaking that found open sessions in the meeting (and ran with no
\* failed call and nothing interleaved) has stamped ended_at on each of them,
\* has left their duration null, and has changed no participant's
\* total_speaking_time or speaking_sessions
C8_CleanupWithoutCredit ==
  \A c \in Clients :
    (StartDone(c) /\ pc[c].ids # {}) =>
      /\ \A i \in pc[c].ids :
           /\ speaking_sessions[i].ended_at # NULL
           /\ speaking_sessions[i].duration = NULL
      /\ \A q \in DOMAIN participants :
           /\ participants[q].total_speaking_time = pc[c].pre[q].total_speaking_time
           /\ participants[q].speaking_sessions = pc[c].pre[q].speaking_sessions

\* C8 witness: the start closed a session whose participant was no longer
\* marked speaking (left open by a stop that did not close it)
C8_Witness ==
  \E c \in Clients :
    /\ StartDone(c)
    /\ \E i \in pc[c].ids :
         ~pc[c].pre[speaking_sessions[i].participant_id].is_currently_speaking

\* C9: after a startSpeaking(p) of meeting m that ran with no failed call and
\* nothing interleaved, exactly one session of m has ended_at = null, and it
\* is the session this start inserted for p
C9_RecoveryByNextStart ==
  \A c \in Clients :
    StartDone(c) =>
      /\ OpenSessionsIn(meetingId[c]) = {pc[c].sid}
      /\ speaking_sessions[pc[c].sid].participant_id = pc[c].p
      /\ pc[c].sid = Len(speaking_sessions)

\* C9 witness: the start began with an open session in the meeting and no
\* participant marked speaking
C9_Witness ==
  \E c \in Clients :
    /\ StartDone(c)
    /\ pc[c].ids # {}
    /\ SpeakersIn(pc[c].pre, meetingId[c]) = {}

AtRest == \A c \in Clients : pc[c].op = "idle"

\* C2: whenever no startSpeaking or stopSpeaking is in flight on any client,
\* at most one participant of each meeting is marked speaking
C2_SingleActiveSpeaker ==
  AtRest => \A m \in Meetings : Cardinality(Speakers(m)) <= 1

\* C3: once two clients have both made the last call of a startSpeaking, for
\* two different participants of the same meeting, exactly one participant of
\* the meeting is marked speaking
C3_RaceOfTwoStarts ==
  \A c, d \in Clients :
    ( /\ c # d
      /\ pc[c].op = "start" /\ pc[c].step = "finish"
      /\ pc[d].op = "start" /\ pc[d].step = "finish"
      /\ pc[c].p # pc[d].p
      /\ meetingId[c] = meetingId[d] )
    => Cardinality(Speakers(meetingId[c])) = 1

\* C10: each participant has at most one session with ended_at = null
C10_OneOpenSessionPerParticipant ==
  \A p \in PIds : Cardinality(OpenSessionsOf(p)) <= 1

\* stopSpeaking of client c has made its last call, none of its calls failed
\* and no call of another client came in between
StopDone(c) ==
  pc[c].op = "stop" /\ pc[c].step = "finish" /\ pc[c].ok /\ pc[c].alone

SessionsOf(p) ==
  {i \in 1..Len(speaking_sessions) : speaking_sessions[i].participant_id = p}

\* the session most recently opened for p, if any, has ended_at and duration,
\* and no session of p is open
LedgerClosed(p) ==
  /\ \A i \in SessionsOf(p) :
       (\A j \in SessionsOf(p) : j <= i) =>
         /\ speaking_sessions[i].ended_at # NULL
         /\ speaking_sessions[i].duration # NULL
  /\ OpenSessionsOf(p) = {}

\* C4 as claimed: after a stopSpeaking(p) of any client, begun while p was
\* marked speaking, the ledger of p is closed
C4_LedgerClosureAnyClient ==
  \A c \in Clients :
    (StopDone(c) /\ pc[c].pre[pc[c].p].is_currently_speaking) => LedgerClosed(pc[c].p)

\* C4 amended: after a stopSpeaking(p) of the client whose own startSpeaking(p)
\* opened p's session (no other handler of it and no call of another client
\* since that start began), the ledger of p is closed, and the session it
\* opened carries the duration the handler read from its timer
C4_LedgerClosureByStarter ==
  \A c \in Clients :
    (StopDone(c) /\ pc[c].prev.kind = "started" /\ pc[c].prev.p = pc[c].p) =>
      /\ LedgerClosed(pc[c].p)
      /\ pc[c].prev.sid \in SessionsOf(pc[c].p)
      /\ \A j \in SessionsOf(pc[c].p) : j <= pc[c].prev.sid
      /\ speaking_sessions[pc[c].prev.sid].duration = pc[c].dur

\* C4 witness: the starter has stopped its participant
C4_Witness ==
  \E c \in Clients :
    /\ StopDone(c) /\ pc[c].prev.kind = "started" /\ pc[c].prev.p = pc[c].p
    /\ pc[c].pre[pc[c].p].is_currently_speaking

\* stopSpeaking(p) of client c has made its last call, and the handler before
\* it on this client was the startSpeaking(p) recorded in prev
StopAfterStart(c) ==
  StopDone(c) /\ pc[c].prev.kind = "started" /\ pc[c].prev.p = pc[c].p

\* what start, n ticks, stop does to p's row and to the session it opened
CreditedExactly(c) ==
  LET p == pc[c].p
      before == pc[c].prev.pre
      n == pc[c].prev.n
  IN /\ participants[p].total_speaking_time = before[p].total_speaking_time + n
     /\ participants[p].speaking_sessions = before[p].speaking_sessions + 1
     /\ ~participants[p].is_currently_speaking
     /\ speaking_sessions[pc[c].prev.sid].participant_id = p
     /\ speaking_sessions[pc[c].prev.sid].ended_at # NULL
     /\ speaking_sessions[pc[c].prev.sid].duration = n

C6_Preemption ==
  \A c \in Clients :
    (StartDone(c) /\ pc[c].prev.kind = "started" /\ pc[c].prev.p # pc[c].p) =>
      LET a == pc[c].prev.p
          b == pc[c].p
      IN /\ participants[b].is_currently_speaking
         /\ ~participants[a].is_currently_speaking
         /\ speaking_sessions[pc[c].prev.sid].participant_id = a
         /\ speaking_sessions[pc[c].prev.sid].ended_at # NULL
         /\ speaking_sessions[pc[c].prev.sid].duration = NULL
         /\ participants[a].total_speaking_time = pc[c].prev.pre[a].total_speaking_time
         /\ participants[a].speaking_sessions = pc[c].prev.pre[a].speaking_sessions

\* C6 witness: a was pre-empted after its timer had ticked
C6_Witness ==
  \E c \in Clients :
    /\ StartDone(c) /\ pc[c].prev.kind = "started" /\ pc[c].prev.p # pc[c].p
    /\ pc[c].prev.n > 0

\* C7: no step lowers a participant's total_speaking_time or speaking_sessions
C7_AggregateMonotonic ==
  [][\A p \in DOMAIN participants :
       /\ participants'[p].total_speaking_time >= participants[p].total_speaking_time
       /\ participants'[p].speaking_sessions >= participants[p].speaking_sessions]_vars

\* a step of startSpeaking or stopSpeaking of client c in which the call failed:
\* the handler goes on with a failure recorded, or the insert of the session
\* threw
FailedStep(c) ==
  /\ pc[c].op \in {"start", "stop"}
  /\ \/ pc'[c].op = pc[c].op /\ pc[c].ok /\ ~pc'[c].ok
     \/ pc[c].step = "insert" /\ pc'[c].op = "idle"

\* C11: when a call of startSpeaking or stopSpeaking fails, the handler ends
\* there (it issues no later call and does not reach its success state, the
\* timer state stays as it was), a toast is raised, and the rows written by
\* the earlier calls stay as written
C11_FailStop ==
  [][\A c \in Clients :
       FailedStep(c) =>
         /\ pc'[c].op = "idle"
         /\ toast'[c] = "destructive"
         /\ timerVars' = timerVars
         /\ storeVars' = storeVars]_vars

\* C11, the part the code keeps: a failed insert of the session ends
\* startSpeaking with a toast, the timer state and the store as they were
C11_InsertFailureStops ==
  [][\A c \in Clients :
       (pc[c].op = "start" /\ pc[c].step = "insert" /\ pc'[c].op = "idle") =>
         /\ toast'[c] = "destructive"
         /\ timerVars' = timerVars
         /\ storeVars' = storeVars]_vars

\* a start invocation of client c (either entry point) has issued the call
\* that marks its participant speaking
FlagIssued(c) ==
  \/ pc[c].op = "start" /\ pc[c].step = "finish"
  \/ pc[c].op = "toggle" /\ pc[c].status /\ pc[c].step = "insert"

\* the invocation in flight on client c has inserted its session row
SessionInserted(c) ==
  /\ pc[c].op = "start" /\ pc[c].step \in {"flag", "finish"}
  /\ pc[c].sid \in 1..Len(speaking_sessions)
  /\ speaking_sessions[pc[c].sid].participant_id = pc[c].p

\* the invocation in flight on client c has issued its clear-all call
ClearIssued(c) ==
  \/ pc[c].op = "start"
  \/ pc[c].op = "toggle" /\ pc[c].status /\ pc[c].step \in {"set", "insert"}

\* C12: a start invocation issues clear-all, close-stale, insert, set-flag in
\* this order: it has issued the set-flag call only after it has inserted its
\* session row, and the insert only after the clear-all
C12_StepOrder ==
  \A c \in Clients :
    /\ FlagIssued(c) => SessionInserted(c)
    /\ SessionInserted(c) => ClearIssued(c)

\* the rows of meeting m appear in this step (the meeting is created)
MeetingCreated(m) ==
  /\ \A p \in DOMAIN participants : participants[p].meeting_id # m
  /\ \E p \in DOMAIN participants' : participants'[p].meeting_id = m

\* a created meeting is Idle: nobody marked speaking, no sessions
CreatedIdle ==
  \A m \in Meetings :
    MeetingCreated(m) =>
      /\ SpeakersIn(participants', m) = {}
      /\ \A i \in 1..Len(speaking_sessions') : speaking_sessions'[i].meeting_id # m

\* after a stopSpeaking(p) of a single client that began while p was the
\* active speaker of the meeting, nobody of the meeting is marked speaking
StopLeavesIdle ==
  \A c \in Clients :
    (StopDone(c) /\ SpeakersIn(pc[c].pre, meetingId[c]) = {pc[c].p})
      => Speakers(meetingId[c]) = {}

\* this step is a call of a startSpeaking, stopSpeaking or
\* toggleParticipantSpeaking in flight
SpeakingHandlerStep ==
  \E c \in Clients :
    /\ pc'[c] # pc[c]
    /\ pc[c].op \in {"start", "stop", "toggle"} \/ pc'[c].op \in {"start", "stop", "toggle"}

\* the rows deleted by this step
Removed == DOMAIN participants \ DOMAIN participants'

\* C13 as claimed: a created meeting is Idle, a stop of the active speaker
\* leaves the meeting Idle, and the set of participants marked speaking
\* changes only in a step of StartSpeaking or StopSpeaking
C13_StateMachineStartStopOnly ==
  /\ []StopLeavesIdle
  /\ [][/\ CreatedIdle
        /\ \A m \in Meetings :
             SpeakersIn(participants', m) # Speakers(m) => SpeakingHandlerStep]_vars

\* C13 amended: as claimed, except that the set of participants marked
\* speaking also changes when the row of a participant marked speaking is
\* deleted (removeParticipant), and then by exactly that participant
C13_StateMachine ==
  /\ []StopLeavesIdle
  /\ [][/\ CreatedIdle
        /\ \A m \in Meetings :
             SpeakersIn(participants', m) # Speakers(m) =>
               \/ SpeakingHandlerStep
               \/ /\ Removed # {}
                  /\ SpeakersIn(participants', m) = Speakers(m) \ Removed]_vars

\* C13 witness: a meeting has been created, the row of a participant has been
\* deleted, and a stop of the active speaker has made its last call
C13_Witness ==
  \E c \in Clients :
    /\ StopDone(c) /\ SpeakersIn(pc[c].pre, meetingId[c]) = {pc[c].p}
    /\ \E p \in DOMAIN participants : participants[p].meeting_id = "m3"
    /\ InitialPIds \ DOMAIN participants # {}

\* client c shows participant p as the active speaker
ShownActive(c, p) ==
  p \in DOMAIN viewParticipants[c] /\ viewParticipants[c][p].is_currently_speaking

\* client c comes to show p as the active speaker in this step
ComesActive(c, p) ==
  /\ ~ShownActive(c, p)
  /\ p \in DOMAIN viewParticipants'[c] /\ viewParticipants'[c][p].is_currently_speaking

\* C14: on every client, the elapsed time displayed for a participant shown
\* as the active speaker is 0 when the client's own startSpeaking(p) completes
\* and when the client comes to show p as active from the change feed, and a
\* step that is no completion of a handler changes it by exactly +1
C14_DisplayReconciliation ==
  [][\A c \in Clients, p \in PIds :
       /\ (pc[c].op = "start" /\ pc[c].step = "finish" /\ pc[c].p = p /\ pc'[c].op = "idle")
            => currentSessionTime'[c][p] = 0
       /\ ComesActive(c, p) => currentSessionTime'[c][p] = 0
       /\ (pc'[c] = pc[c] /\ currentSessionTime'[c][p] # currentSessionTime[c][p])
            => /\ ShownActive(c, p)
               /\ currentSessionTime'[c][p] = currentSessionTime[c][p] + 1]_vars

\* whole seconds since the start instant recorded in c's counter of p
Elapsed(c, p) == (clock - localCounters[c][p].startTime) \div UnitsPerSecond

ShownSpeaking(c) ==
  {p \in DOMAIN viewParticipants[c] : viewParticipants[c][p].is_currently_speaking}

Refetched(c) == fetchPending[c] /\ ~fetchPending'[c]

\* the participant the fetched list shows speaking: the first one in the
\* order of the list, should it show several
FetchedSpeaker(c) ==
  LET at == {i \in DOMAIN viewOrder'[c] :
               viewParticipants'[c][viewOrder'[c][i]].is_currently_speaking}
  IN viewOrder'[c][CHOOSE i \in at : \A j \in at : i <= j]

\* C16: when a re-fetch shows nobody speaking the local counter record becomes
\* empty; when it shows q speaking and the record holds no counter for q
\* (it is empty or holds another participant), the record becomes exactly
\* {q -> (the instant of the observation, q's fetched total_speaking_time)}
C16_LocalTimerReconciliation ==
  [][Refetched("c1") =>
       IF \A p \in DOMAIN viewParticipants'["c1"] :
            ~viewParticipants'["c1"][p].is_currently_speaking
       THEN localCounters'["c1"] = NoCounters
       ELSE LET q == FetchedSpeaker("c1")
            IN q \notin DOMAIN localCounters["c1"] =>
                 /\ DOMAIN localCounters'["c1"] = {q}
                 /\ localCounters'["c1"][q].startTime = clock
                 /\ localCounters'["c1"][q].baseSeconds =
                      viewParticipants'["c1"][q].total_speaking_time]_vars

\* C16 witness: the record holds a counter seeded after time had passed, for a
\* participant shown speaking together with a second one
C16_Witness ==
  \E q \in DOMAIN localCounters["c1"] :
    /\ localCounters["c1"][q].startTime > 0
    /\ q \in ShownSpeaking("c1")
    /\ ShownSpeaking("c1") # {q}

\* the list client c holds is the store's rows of its meeting
Consistent(c) == viewParticipants[c] = SelectParticipants(participants, meetingId[c])

\* C17: if the writes to the store stop, and every re-fetch is served and its
\* response delivered, the list the subscribed client holds eventually equals
\* the store's rows of its meeting and stays equal
C17_EventualConsistency ==
  (<>[][UNCHANGED storeVars]_vars) => <>[]Consistent("c1")

\* the meeting view of client c is mounted
ViewMounted(c) == page[c] /\ activeMeeting[c] # "none"

\* C18: once the meeting view is left, no subscription of the view or of its
\* questions panel remains, and once the page is left none at all; while
\* mounted, a component never holds more than one subscription per table
C18_FeedCleanup ==
  \A c \in Clients :
    /\ ~ViewMounted(c) =>
         \A t \in Tables : /\ channels[c][<<"ActiveMeetingView", t>>] = 0
                           /\ channels[c][<<"QuestionsPanel", t>>] = 0
    /\ ~page[c] => channels[c] = NoChannels
    /\ \A k \in DOMAIN channels[c] : channels[c][k] <= 1
    /\ ViewMounted(c) =>
         \A t \in ViewTables : channels[c][<<"ActiveMeetingView", t>>] = 1

\* one client has left the view, the other has switched meeting and tab
C18_Witness ==
  /\ page["c1"] /\ activeMeeting["c1"] = "none"
  /\ activeMeeting["c2"] = "m2" /\ activeTab["c2"] = "questions"
  /\ hasNew["c2"]["subjects"]

\* position of participant p in the sequence s
PosIn(s, p) == CHOOSE i \in DOMAIN s : s[i] = p

\* C19: the rendered leaderboard holds the fetched rows, each once, in
\* non-increasing order of displayTime (the stored total, plus the live
\* seconds for a row shown speaking), and rows of equal displayTime are in
\* the relative order of the fetched list
C19_LeaderboardOrder ==
  LET L == Leaderboard("c1")
      F == viewOrder["c1"]
  IN /\ Len(L) = Len(F)
     /\ {L[i] : i \in DOMAIN L} = {F[i] : i \in DOMAIN F}
     /\ \A i, j \in DOMAIN L :
          i < j =>
            /\ displayTime("c1", L[i]) >= displayTime("c1", L[j])
            /\ displayTime("c1", L[i]) = displayTime("c1", L[j])
                 => PosIn(F, L[i]) < PosIn(F, L[j])

\* three rows fetched; the live seconds lift a speaker above the rows fetched
\* before it, two of them with equal values
C19_Witness ==
  LET L == Leaderboard("c1")
      F == viewOrder["c1"]
  IN /\ Len(F) = 3
     /\ L # F
     /\ getLiveSeconds("c1", L[1]) > 0
     /\ displayTime("c1", L[2]) = displayTime("c1", L[3])

\* number of completed sessions (ended_at set) of participant p
CompletedSessions(p) ==
  Cardinality({i \in DOMAIN speaking_sessions :
                 /\ speaking_sessions[i].participant_id = p
                 /\ speaking_sessions[i].ended_at # NULL})

\* C20: whenever no speaking operation is in flight, every participant's
\* speaking_sessions equals the number of its completed sessions
C20_SessionCountMeaning ==
  AtRest => \A p \in DOMAIN participants :
              participants[p].speaking_sessions = CompletedSessions(p)

\* the meetings with is_active = true
ActiveMeetings == {m \in DOMAIN meetings : meetings[m].is_active}

\* C21: whenever no meeting creation is in flight, at most one meeting is
\* active
C21_SingleActiveMeeting ==
  (\A c \in Clients : creating[c].step = "idle") => Cardinality(ActiveMeetings) <= 1

\* C22: a step that changes the meetings table by ending a meeting sets
\* is_active = false and ended_at on one meeting and leaves every other
\* meeting, every participant row and every session row unchanged
C22_EndTouchesOnlyMeeting ==
  [][meetings' # meetings =>
       /\ participants' = participants
       /\ speaking_sessions' = speaking_sessions
       /\ \E m \in DOMAIN meetings :
            meetings' = [meetings EXCEPT ![m].is_active = FALSE, ![m].ended_at = Stamp]]_vars

\* meeting m1 was ended while bob was marked speaking with an open session
C22_Witness ==
  /\ ~meetings["m1"].is_active
  /\ participants["bob"].is_currently_speaking
  /\ \E i \in DOMAIN speaking_sessions :
       /\ speaking_sessions[i].participant_id = "bob"
       /\ speaking_sessions[i].ended_at = NULL

\* t is s without its leading and trailing blanks
IsTrimOf(t, s) ==
  /\ t = <<>> \/ (t[1] # " " /\ t[Len(t)] # " ")
  /\ \E i \in 0..Len(s) :
       /\ i + Len(t) <= Len(s)
       /\ t = SubSeq(s, i + 1, i + Len(t))
       /\ \A k \in 1..Len(s) : (k <= i \/ k > i + Len(t)) => s[k] = " "

\* the step stores a question submitted from client c's form
Submitted(c) == Len(questions') = Len(questions) + 1 /\ PanelMounted(c, "questions")

\* C24: a question submitted as anonymous is stored with asker_name null
\* whatever the name field holds, one submitted with a name is stored with
\* the trimmed, non-empty name; and the listing shows the Anonymous line
\* exactly for the questions whose asker_name is null or empty
C24_AnonymousQuestions ==
  /\ [][Submitted("c1") =>
          LET row == questions'[Len(questions')]
              st == panel["c1"]
          IN /\ st.isAnonymous => row.asker_name = Null
             /\ ~st.isAnonymous =>
                  /\ ~row.asker_name.null
                  /\ row.asker_name.text # <<>>
                  /\ IsTrimOf(row.asker_name.text, st.askerName)]_vars
  /\ [](\A i \in DOMAIN panel["c1"].questions :
          LET q == panel["c1"].questions[i]
          IN (Listing("c1")[i] = [icon |-> "UserX", text |-> <<"Anonymous">>])
               <=> (q.asker_name.null \/ q.asker_name.text = <<>>))

\* the list shows a question stored as anonymous while the name field held a
\* name, and a question stored under the trimmed name
C24_Witness ==
  LET qs == panel["c1"].questions
  IN /\ Len(qs) = 2
     /\ qs[1].asker_name = Null
     /\ qs[2].asker_name = Text(<<"a">>)
     /\ panel["c1"].askerName = <<" ", "a">>

\* a text that is empty or holds blanks only
Blank(s) == \A i \in DOMAIN s : s[i] = " "

\* the store's tables and the state of the forms
AllTables == <<participants, speaking_sessions, meetings, questions, subjects>>
AllForms == <<title, formParticipants, panel>>

\* nothing is stored, no request is issued or pending, the forms are as they
\* were, and client c is shown an error
Rejected(c) ==
  /\ UNCHANGED AllTables
  /\ UNCHANGED AllForms
  /\ UNCHANGED <<creating, meetingsPending, panelPending, fetchPending, hasNew>>
  /\ toast'[c] = "destructive"

\* C23: a submit with an empty or blank required field (meeting title; no
\* non-blank participant name; question text; asker name of a question that
\* is not anonymous; subject title) stores nothing, issues no request, leaves
\* the form as it is and reports an error
C23_ValidationFirst ==
  [][/\ (/\ handleCreate_click("c1")
         /\ \/ Blank(title["c1"])
            \/ \A i \in DOMAIN formParticipants["c1"] : Blank(formParticipants["c1"][i]))
        => Rejected("c1")
     /\ (/\ submitQuestion("c1", TRUE)
         /\ \/ Blank(panel["c1"].newQuestion)
            \/ ~panel["c1"].isAnonymous /\ Blank(panel["c1"].askerName))
        => Rejected("c1")
     /\ (addSubject("c1", TRUE) /\ Blank(panel["c1"].newTitle))
        => Rejected("c1")]_vars

\* the create dialog was submitted with a blank title and two names, one of
\* them blank: an error is shown and no meeting was created
C23_Witness ==
  /\ title["c1"] = <<" ">>
  /\ formParticipants["c1"] = << <<" ", "a">>, <<>> >>
  /\ toast["c1"] = "destructive"
  /\ creating["c1"].step = "idle"
  /\ DOMAIN meetings = {"m1", "m2"}
  /\ questions = <<>> /\ subjects = <<>>

\* C25: a stopSpeaking of p on a client that holds no session id for p skips
\* the session update, changes no session row, and writes to p's row
\* is_currently_speaking = false, the total the client last fetched plus its
\* own tick count, and the count it last fetched plus one
C25_StopWithoutSession ==
  [][\A p \in PIds :
       /\ (/\ pc["c2"].op = "idle" /\ pc'["c2"].op = "stop" /\ pc'["c2"].p = p
           /\ activeSessionId["c2"][p] = NULL)
          => /\ pc'["c2"].step = "stats"
             /\ pc'["c2"].total = viewParticipants["c2"][p].total_speaking_time
             /\ pc'["c2"].count = viewParticipants["c2"][p].speaking_sessions
             /\ pc'["c2"].dur = currentSessionTime["c2"][p]
             /\ UNCHANGED storeVars
       /\ (/\ pc["c2"].op = "stop" /\ pc["c2"].p = p /\ pc["c2"].sid = NULL
           /\ pc'["c2"].step # pc["c2"].step)
          => /\ speaking_sessions' = speaking_sessions
             /\ pc["c2"].step # "close"
             /\ pc["c2"].step = "stats" =>
                  participants' =
                    [participants EXCEPT
                       ![p] = [@ EXCEPT !.is_currently_speaking = FALSE,
                                        !.total_speaking_time = pc["c2"].total + pc["c2"].dur,
                                        !.speaking_sessions = pc["c2"].count + 1]]]_vars

\* client c2 has stopped bob, whom client c1 had started: bob is credited
\* c2's tick and one session while his session is still open
C25_Witness ==
  /\ pc["c2"].op = "idle"
  /\ activeSessionId["c1"]["bob"] # NULL
  /\ ~participants["bob"].is_currently_speaking
  /\ participants["bob"].total_speaking_time = 1
  /\ participants["bob"].speaking_sessions = 1
  /\ \E i \in DOMAIN speaking_sessions :
       /\ speaking_sessions[i].participant_id = "bob"
       /\ speaking_sessions[i].ended_at = NULL

\* the columns of the participants rows other than is_currently_speaking
Aggregates(tbl) ==
  [p \in DOMAIN tbl |-> [tbl[p] EXCEPT !.is_currently_speaking = FALSE]]

\* C26: a step of toggleParticipantSpeaking writes no participant column
\* other than is_currently_speaking (no total_speaking_time, no
\* speaking_sessions), and sets no session's duration
C26_ToggleNeverCredits ==
  [][(pc["c1"].op = "toggle" /\ pc'["c1"].step # pc["c1"].step) =>
       /\ Aggregates(participants') = Aggregates(participants)
       /\ \A i \in DOMAIN speaking_sessions' :
            i \in DOMAIN speaking_sessions =>
              speaking_sessions'[i].duration = speaking_sessions[i].duration
       /\ \A i \in DOMAIN speaking_sessions' :
            i \notin DOMAIN speaking_sessions => speaking_sessions'[i].duration = NULL]_vars

\* the name list has stopped alice, whom the other client had started: her
\* flag is cleared, her session is open without a duration, nothing credited
C26_Witness ==
  /\ pc["c1"].op = "idle" /\ pc["c2"].op = "idle"
  /\ toast["c1"] = "destructive"
  /\ \A p \in {"alice", "bob"} :
       /\ ~participants[p].is_currently_speaking
       /\ participants[p].total_speaking_time = 0
       /\ participants[p].speaking_sessions = 0
  /\ \E i \in DOMAIN speaking_sessions :
       /\ speaking_sessions[i].participant_id = "alice"
       /\ speaking_sessions[i].ended_at = NULL
       /\ speaking_sessions[i].duration = NULL

\* participant p has a session with ended_at = null
HasOpenSession(p) ==
  \E i \in DOMAIN speaking_sessions :
    /\ speaking_sessions[i].participant_id = p
    /\ speaking_sessions[i].ended_at = NULL

\* C27: with no operation in flight, also after a start in which a remote
\* step failed, no participant of the meeting is left marked speaking
\* without an open session of its own
C27_PartialFailureShapes ==
  AtRest =>
    \A p \in DOMAIN participants :
      (participants[p].meeting_id = "m1" /\ participants[p].is_currently_speaking)
        => HasOpenSession(p)

RECURSIVE DurationSum(_, _)
DurationSum(p, n) ==
  IF n = 0 THEN 0
  ELSE DurationSum(p, n - 1) +
       (IF /\ speaking_sessions[n].participant_id = p
           /\ speaking_sessions[n].duration # NULL
        THEN speaking_sessions[n].duration ELSE 0)

TimedSessions(p) ==
  Cardinality({i \in DOMAIN speaking_sessions :
                 /\ speaking_sessions[i].participant_id = p
                 /\ speaking_sessions[i].duration # NULL})

\* C29: whenever no handler is in flight and the view shows the stored rows
\* (no re-fetch is outstanding), each participant's total_speaking_time equals
\* the sum of the non-null durations of its sessions and its speaking_sessions
\* equals the number of its sessions with a non-null duration
C29_AggregateEqualsLedger ==
  (AtRest /\ Consistent("c1")) =>
    \A p \in DOMAIN participants :
      participants[p].meeting_id = "m1" =>
        /\ participants[p].total_speaking_time = DurationSum(p, Len(speaking_sessions))
        /\ participants[p].speaking_sessions = TimedSessions(p)


\* ---------------------------------------------------------------- claim C30
\* C30: every speaking session's meeting_id equals the meeting_id of the
\* participant its participant_id refers to
C30_DenormalizedMeetingId ==
  \A i \in DOMAIN speaking_sessions :
    speaking_sessions[i].participant_id \in DOMAIN participants =>
      speaking_sessions[i].meeting_id =
        participants[speaking_sessions[i].participant_id].meeting_id


\* ---------------------------------------------------------------- claim C31
\* the participants of meeting m that table tbl marks as speaking
SpeakersOf(tbl, m) ==
  {q \in DOMAIN tbl : tbl[q].meeting_id = m /\ tbl[q].is_currently_speaking}

\* C31: a step that removes participant p leaves no participant row and no
\* session row that refers to p and changes no other participant's row, so
\* that a meeting whose only speaker was p has no speaker; and a re-fetch of
\* the leaderboard view that finds no speaker in the meeting leaves the
\* client's local counter record empty
C31_RemoveParticipant ==
  [][/\ \A p \in PIds :
          (p \in DOMAIN participants /\ p \notin DOMAIN participants') =>
            /\ \A i \in DOMAIN speaking_sessions' :
                 speaking_sessions'[i].participant_id # p
            /\ DOMAIN participants' = DOMAIN participants \ {p}
            /\ \A q \in DOMAIN participants' : participants'[q] = participants[q]
            /\ SpeakersOf(participants, participants[p].meeting_id) = {p} =>
                 SpeakersOf(participants', participants[p].meeting_id) = {}
     /\ (/\ fetchPending["c1"] /\ ~fetchPending'["c1"]
         /\ SpeakersOf(participants, meetingId["c1"]) = {})
        => localCounters'["c1"] = NoCounters]_vars

\* alice, the speaker whose counter client c1 holds and who had a session,
\* has just been removed: her rows are gone and the re-fetch is pending
C31_Witness ==
  /\ "alice" \notin DOMAIN participants
  /\ \E i \in DOMAIN speaking_sessions : speaking_sessions[i] = Deleted
  /\ "alice" \in DOMAIN localCounters["c1"]
  /\ fetchPending["c1"]
  /\ SpeakersOf(participants, "m1") = {}


\* ---------------------------------------------------------------- claim C32
\* C32: the local counter record of the leaderboard view of client c1 holds
\* at most one participant id, and an id it holds is that of a participant
\* which the list the view last fetched shows as speaking
C32_CounterRecordShape ==
  /\ \A c \in Clients : Cardinality(DOMAIN localCounters[c]) <= 1
  /\ \A p \in DOMAIN localCounters["c1"] :
       /\ p \in DOMAIN viewParticipants["c1"]
       /\ viewParticipants["c1"][p].is_currently_speaking

\* the view of client c1 holds a counter for bob alone, started after time
\* had passed, its list showing bob as the speaker and alice as silent
C32_Witness ==
  /\ DOMAIN localCounters["c1"] = {"bob"}
  /\ localCounters["c1"]["bob"].startTime > 0
  /\ viewParticipants["c1"]["bob"].is_currently_speaking
  /\ ~viewParticipants["c1"]["alice"].is_currently_speaking


\* ---------------------------------------------------------------- claim C33
\* C33: the marker of a tab (subjects, questions) is never set while that tab
\* is the active tab; a step sets it only while another tab is active, and a
\* step that makes the tab active leaves it cleared
C33_NewContentMarkers ==
  /\ [](\A c \in Clients : \A t \in DOMAIN hasNew[c] :
          activeTab[c] = t => ~hasNew[c][t])
  /\ [][\A c \in Clients : \A t \in DOMAIN hasNew[c] :
          /\ (~hasNew[c][t] /\ hasNew'[c][t]) =>
               /\ activeTab[c] # t /\ activeTab'[c] # t
               /\ channels[c][<<"ActiveMeetingView", t>>] > 0
          /\ (activeTab[c] # t /\ activeTab'[c] = t) => ~hasNew'[c][t]]_vars

\* client c1 has opened the subjects tab, which cleared its marker, while the
\* marker of the questions tab is set
C33_Witness ==
  /\ activeTab["c1"] = "subjects"
  /\ ~hasNew["c1"]["subjects"]
  /\ hasNew["c1"]["questions"]


\* ---------------------------------------------------------------- claim C34
\* the entries of a form that hold something other than blanks
NonBlank(names) ==
  {i \in DOMAIN names : \E k \in DOMAIN names[i] : names[i][k] # " "}

\* C34: the list of name entries of the create dialog is never empty; and the
\* step of handleCreate that inserts the participants successfully adds
\* exactly one row per non-blank entry of the form, with the trimmed entry as
\* its name, attached to the meeting the handler has just created, not
\* speaking and with zero aggregates, and changes no other row
C34_CreateForm ==
  /\ [](\A c \in Clients : Len(formParticipants[c]) >= 1)
  /\ [][\A c \in Clients :
          (/\ creating[c].step = "participants"
           /\ creating'[c].step = "idle"
           /\ toast'[c] = "default")
          => LET new == DOMAIN participants' \ DOMAIN participants
                 entries == NonBlank(formParticipants[c])
             IN /\ DOMAIN participants \subseteq DOMAIN participants'
                /\ \A p \in DOMAIN participants : participants'[p] = participants[p]
                /\ creating[c].m \in DOMAIN meetings
                /\ \A p \in DOMAIN participants :
                     participants[p].meeting_id # creating[c].m
                /\ \A p \in new :
                     /\ participants'[p].meeting_id = creating[c].m
                     /\ ~participants'[p].is_currently_speaking
                     /\ participants'[p].total_speaking_time = 0
                     /\ participants'[p].speaking_sessions = 0
                /\ \E f \in [entries -> new] :
                     /\ \A i, j \in entries : f[i] = f[j] => i = j
                     /\ \A p \in new : \E i \in entries : f[i] = p
                     /\ \A i \in entries :
                          IsTrimOf(participants'[f[i]].name, formParticipants[c][i])]_vars

\* client c1 has created meeting m3 with one participant, named a, and its
\* form is reset to one empty entry
C34_Witness ==
  /\ creating["c1"].step = "idle"
  /\ "m3" \in DOMAIN meetings
  /\ {p \in DOMAIN participants : participants[p].meeting_id = "m3"} = {"m3-1"}
  /\ participants["m3-1"].name = <<"a">>
  /\ toast["c1"] = "default"
  /\ formParticipants["c1"] = << <<>> >>


\* ---------------------------------------------------------------- claim C35
\* C35: a fetchMeetings that completes leaves the dashboard's activeMeeting
\* null exactly when no meeting is active and otherwise on the active meeting
\* created last; and a dashboard with no fetch outstanding never shows a
\* meeting that has been ended
C35_DashboardActiveMeeting ==
  /\ [][\A c \in Clients :
          (meetingsPending[c] /\ ~meetingsPending'[c]) =>
            /\ activeMeeting'[c] = "none" <=> ActiveMeetings = {}
            /\ activeMeeting'[c] # "none" =>
                 /\ activeMeeting'[c] \in ActiveMeetings
                 /\ \A k \in ActiveMeetings :
                      meetings[k].created_at <= meetings[activeMeeting'[c]].created_at]_vars
  /\ [](\A c \in Clients :
          (page[c] /\ ~meetingsPending[c] /\ activeMeeting[c] # "none") =>
            meetings[activeMeeting[c]].is_active)

\* two meetings are active (C21) and the dashboard of client c1, up to date,
\* shows the one created last, the meeting m1 it showed before being ended
C35_Witness ==
  /\ ActiveMeetings = {"m3", "m4"}
  /\ meetings["m3"].created_at < meetings["m4"].created_at
  /\ ~meetings["m1"].is_active
  /\ ~meetingsPending["c1"]
  /\ activeMeeting["c1"] = "m4"


\* ---------------------------------------------------------------- claim C36
\* the number written by a sequence of decimal digits
RECURSIVE DecimalValue(_)
DecimalValue(str) ==
  IF str = <<>> THEN 0
  ELSE 10 * DecimalValue(SubSeq(str, 1, Len(str) - 1)) +
       (CHOOSE d \in 0..9 : Digits[d + 1] = str[Len(str)])

IsDigits(str) == \A k \in DOMAIN str : \E d \in 0..9 : Digits[d + 1] = str[k]

\* C36: a rendered label is M:SS, M the decimal of seconds div 60 and SS the
\* two digits of seconds mod 60, so that M * 60 + SS = seconds and SS <= 59;
\* and every copy of formatTime renders the same label
C36_FormatTime ==
  label # NoLabel =>
    LET out == label.timer
        minsPart == SubSeq(out, 1, Len(out) - 3)
        secsPart == SubSeq(out, Len(out) - 1, Len(out))
    IN /\ Len(out) >= 4
       /\ out[Len(out) - 2] = ":"
       /\ IsDigits(minsPart) /\ IsDigits(secsPart)
       /\ Len(minsPart) > 1 => minsPart[1] # "0"
       /\ DecimalValue(minsPart) = label.seconds \div 60
       /\ DecimalValue(secsPart) = label.seconds % 60
       /\ DecimalValue(minsPart) * 60 + DecimalValue(secsPart) = label.seconds
       /\ DecimalValue(secsPart) \in 0..59
       /\ label.board = out /\ label.cards = out /\ label.list = out

\* 6005 seconds are rendered as 100:05: minutes of three digits, seconds
\* padded to two
C36_Witness ==
  /\ label.seconds = 6005
  /\ label.timer = <<"1", "0", "0", ":", "0", "5">>

====
